---- MODULE Spec2Model ----
(***************************************************************************)
(* SmartCart: the label classifier, the product matcher, the recognition   *)
(* orchestrator and the cart state manager (service, hook and backend      *)
(* tables), modelled from the TypeScript and SQL sources.                  *)
(*                                                                         *)
(* Text is modelled as sequences of one-character strings, so that         *)
(* toLowerCase, trim, includes, endsWith and split are computed as the     *)
(* code computes them.                                                     *)
(***************************************************************************)
EXTENDS Integers, Sequences, FiniteSets, TLC

(***************************************************************************)
(* State                                                                   *)
(***************************************************************************)
VARIABLES
  catalog,        \* rows of the products table, in the order of .order('name')
  nameQueryOk,    \* the name-filtered products query succeeds
  allQueryOk,     \* the unfiltered products query succeeds
  matchLabel,     \* the product name handed to a matcher
  matched,        \* the product the matcher returned, NullProduct for null
  matcher,        \* the matcher that ran: "none" before the call
  bestGuessLabel,    \* webDetection.bestGuessLabels[0].label, <<>> when absent
  labelAnnotations,  \* sequence of [description, score]; scores in percent
  webEntities,       \* sequence of [description, score]; description may be empty
  httpStatus,        \* "ok", "badkey" (400 naming the API key) or "error"
  MOCK_MODE,         \* the configured key does not start with "AIza"
  rpc,               \* "idle" before the call, then the service that ran
  recognizedItems,   \* items of the RecognitionResult
  isMocked,          \* the result is flagged isMocked
  thrown,            \* the call rejected
  matcherCalls,      \* labels handed to the product matcher, in call order
  fetchCalls,        \* number of requests sent to the vision endpoint
  carts,            \* carts table: sequence of rows, a row's id is its index
  cart_items,       \* cart_items table: set of rows
  payments,         \* payments table: set of rows
  nextItemId,       \* id the backend gives to the next cart_items row
  hookUser,         \* safeUserId of the mounted hook
  cart,             \* the hook's cart state
  stored,           \* AsyncStorage blob under CART_STORAGE_KEY
  error,            \* the hook's error state
  initialLoadDone,  \* initialLoadDone.current
  tasks,            \* calls in flight: slot 0 the user operation, the others loadCart calls
  reloadTimer,      \* the setTimeout(() => loadCart(true), 500) of checkout is pending
  operations,       \* number of hook operations the user has started
  scannedItem,        \* the scanner's scannedItem state, NullScan for null
  detectedProduct,    \* the scanner's detectedProduct state, NullProduct for null
  showDetectedItem,   \* the scanner's add-to-cart panel is open
  request,            \* a statement against the carts table: who asks, what, on which row
  decision,           \* what the row-level security policies said: "none" before
  rawLabel,           \* the argument of a normalizeLabel call
  normalLabel,        \* what the call returned
  normalizeCalled,     \* the call has returned
  secureStore,   \* SecureStore: key -> entry
  asyncStorage,   \* AsyncStorage: key -> entry
  written,   \* per key, the last setItem or removeItem of the adapter
  got,   \* the last getItem of the adapter and what it returned
  scanning,   \* the scanner's scanning flag
  cartLoading,   \* loading of the scanner's useCart
  scanPc,   \* where handleScan waits: "idle", "capture", "recognize"
  presses,   \* number of presses of the scan button
  productCache,   \* the in-memory product cache
  loadedItems,   \* the items of the cart as the last cart load returned them
  loadState   \* the last cart load: "none", "loaded", "failed", "fixed"

CatalogVars == <<catalog, nameQueryOk, allQueryOk>>

MatchVars == <<matchLabel, matched, matcher>>

VisionVars == <<bestGuessLabel, labelAnnotations, webEntities, httpStatus, MOCK_MODE>>

ResultVars == <<rpc, recognizedItems, isMocked, thrown, matcherCalls, fetchCalls>>

BackendVars == <<carts, cart_items, payments, nextItemId>>

HookVars == <<cart, stored, error, initialLoadDone>>

CartVars == <<BackendVars, HookVars, hookUser, tasks, reloadTimer, operations>>

\* everything outside the cart state manager
ScannerVars == <<scannedItem, detectedProduct, showDetectedItem>>

PolicyVars == <<request, decision>>

TextVars == <<rawLabel, normalLabel, normalizeCalled>>

StorageVars == <<secureStore, asyncStorage, written, got>>

ScanningVars == <<scanning, cartLoading, scanPc, presses>>

ProductVars == <<productCache, loadedItems, loadState>>

PageVars == <<ScannerVars, PolicyVars, TextVars, StorageVars, ScanningVars, ProductVars>>

OtherVars == <<CatalogVars, MatchVars, VisionVars, ResultVars, PageVars>>

vars == <<CatalogVars, MatchVars, VisionVars, ResultVars, CartVars, PageVars>>

(***************************************************************************)
(* Text primitives (JavaScript String methods used by the services)        *)
(***************************************************************************)
UpperChars == <<"A","B","C","D","E","F","G","H","I","J","K","L","M","N","O","P","Q","R","S","T","U","V","W","X","Y","Z">>

LowerChars == <<"a","b","c","d","e","f","g","h","i","j","k","l","m","n","o","p","q","r","s","t","u","v","w","x","y","z">>

\* the lower-case letter of each upper-case letter
lowerOf == [c \in { UpperChars[i] : i \in 1..Len(UpperChars) } |->
              LowerChars[CHOOSE i \in 1..Len(UpperChars) : UpperChars[i] = c]]

\* String.prototype.toLowerCase on one character
LowerChar(c) == IF c \in DOMAIN lowerOf THEN lowerOf[c] ELSE c

\* String.prototype.toLowerCase
RECURSIVE toLowerCase(_)
toLowerCase(s) == IF Len(s) = 0 THEN <<>> ELSE <<LowerChar(s[1])>> \o toLowerCase(Tail(s))

RECURSIVE trimStart(_)
trimStart(s) == IF Len(s) > 0 /\ s[1] = " " THEN trimStart(Tail(s)) ELSE s

RECURSIVE trimEnd(_)
trimEnd(s) == IF Len(s) > 0 /\ s[Len(s)] = " " THEN trimEnd(SubSeq(s, 1, Len(s) - 1)) ELSE s

\* String.prototype.trim
trim(s) == trimEnd(trimStart(s))

\* String.prototype.includes: t occurs in s as a contiguous substring
includes(s, t) == \E i \in 0..(Len(s) - Len(t)) : \A k \in 1..Len(t) : s[i + k] = t[k]

\* String.prototype.endsWith for a one-character suffix
endsWith(s, c) == Len(s) > 0 /\ s[Len(s)] = c

\* String.prototype.split(/\s+/): the maximal whitespace-free runs, in
\* order.  Empty pieces, which split can produce at either end, are
\* dropped here; every caller filters to words longer than 3 characters.
RECURSIVE splitWords(_, _)
splitWords(s, cur) ==
  IF Len(s) = 0 THEN (IF Len(cur) > 0 THEN <<cur>> ELSE <<>>)
  ELSE IF s[1] = " "
       THEN (IF Len(cur) > 0 THEN <<cur>> ELSE <<>>) \o splitWords(Tail(s), <<>>)
       ELSE splitWords(Tail(s), Append(cur, s[1]))

split(s) == splitWords(s, <<>>)

Abs(n) == IF n < 0 THEN 0 - n ELSE n

Min(a, b) == IF a < b THEN a ELSE b

\* The value null / undefined

(***************************************************************************)
(* Label classifier (services/vision.ts)                                   *)
(***************************************************************************)
foodKeywords == {
    <<"f","r","u","i","t">>,
    <<"v","e","g","e","t","a","b","l","e">>,
    <<"f","o","o","d">>,
    <<"p","r","o","d","u","c","e">>,
    <<"g","r","o","c","e","r","y">>,
    <<"e","d","i","b","l","e">>,
    <<"a","p","p","l","e">>,
    <<"b","a","n","a","n","a">>,
    <<"o","r","a","n","g","e">>,
    <<"g","r","a","p","e">>,
    <<"b","e","r","r","y">>,
    <<"c","i","t","r","u","s">>,
    <<"s","t","r","a","w","b","e","r","r","y">>,
    <<"b","l","u","e","b","e","r","r","y">>,
    <<"r","a","s","p","b","e","r","r","y">>,
    <<"b","l","a","c","k","b","e","r","r","y">>,
    <<"m","e","l","o","n">>,
    <<"w","a","t","e","r","m","e","l","o","n">>,
    <<"c","a","n","t","a","l","o","u","p","e">>,
    <<"p","i","n","e","a","p","p","l","e">>,
    <<"m","a","n","g","o">>,
    <<"p","e","a","c","h">>,
    <<"p","e","a","r">>,
    <<"p","l","u","m">>,
    <<"c","h","e","r","r","y">>,
    <<"k","i","w","i">>,
    <<"f","i","g">>,
    <<"d","a","t","e">>,
    <<"a","p","r","i","c","o","t">>,
    <<"l","e","m","o","n">>,
    <<"l","i","m","e">>,
    <<"t","o","m","a","t","o">>,
    <<"p","o","t","a","t","o">>,
    <<"c","a","r","r","o","t">>,
    <<"b","r","o","c","c","o","l","i">>,
    <<"l","e","t","t","u","c","e">>,
    <<"s","p","i","n","a","c","h">>,
    <<"k","a","l","e">>,
    <<"o","n","i","o","n">>,
    <<"g","a","r","l","i","c">>,
    <<"p","e","p","p","e","r">>,
    <<"c","u","c","u","m","b","e","r">>,
    <<"z","u","c","c","h","i","n","i">>,
    <<"e","g","g","p","l","a","n","t">>,
    <<"b","r","e","a","d">>,
    <<"p","a","s","t","a">>,
    <<"r","i","c","e">>,
    <<"c","e","r","e","a","l">>,
    <<"o","a","t","s">>,
    <<"m","e","a","t">>,
    <<"c","h","i","c","k","e","n">>,
    <<"b","e","e","f">>,
    <<"p","o","r","k">>,
    <<"f","i","s","h">>,
    <<"s","e","a","f","o","o","d">>,
    <<"d","a","i","r","y">>,
    <<"m","i","l","k">>,
    <<"c","h","e","e","s","e">>,
    <<"y","o","g","u","r","t">>,
    <<"b","e","v","e","r","a","g","e">>,
    <<"d","r","i","n","k">>,
    <<"j","u","i","c","e">>,
    <<"w","a","t","e","r">>,
    <<"s","o","d","a">>,
    <<"c","o","f","f","e","e">>,
    <<"t","e","a">>,
    <<"s","n","a","c","k">>,
    <<"c","a","n","d","y">>,
    <<"c","h","o","c","o","l","a","t","e">>,
    <<"c","o","o","k","i","e","s">>,
    <<"c","r","a","c","k","e","r","s">>,
    <<"c","h","i","p","s">>,
    <<"n","a","t","u","r","a","l"," ","f","o","o","d">>,
    <<"o","r","g","a","n","i","c">>,
    <<"p","r","o","d","u","c","t">>,
    <<"g","r","o","c","e","r","y"," ","i","t","e","m">>,
    <<"s","u","p","e","r","m","a","r","k","e","t">>
  }

\* isFood: the lower-cased, trimmed label contains one of the keywords
\* keyword.toLowerCase() of every keyword
lowerCaseKeywords == { toLowerCase(keyword) : keyword \in foodKeywords }

isFood(label) ==
  LET normalizedLabel == trim(toLowerCase(label))
  IN \E keyword \in lowerCaseKeywords : includes(normalizedLabel, keyword)

\* no word is excepted
pluralExceptionsNone == {}

pluralExceptions == {
    <<"g","r","a","p","e","s">>,
    <<"c","h","i","p","s">>,
    <<"o","a","t","s">>,
    <<"c","o","o","k","i","e","s">>,
    <<"c","r","a","c","k","e","r","s">>
  }

\* normalizeLabel: lower-case, trim, drop one trailing "s" unless excepted
normalizeLabel(label) ==
  LET normalized == trim(toLowerCase(label))
  IN IF endsWith(normalized, "s") /\ normalized \notin pluralExceptions
     THEN SubSeq(normalized, 1, Len(normalized) - 1)
     ELSE normalized

(***************************************************************************)
(* Catalog (products table) and the product queries                        *)
(***************************************************************************)
\* Products the catalog is drawn from, listed in name order
ProductsByName == <<
    [id |-> "p1", name |-> <<"A","p","p","l","e">>, category |-> <<"F","r","u","i","t","s">>, price |-> 99],
    [id |-> "p2", name |-> <<"B","a","b","y"," ","B","a","n","a","n","a">>, category |-> <<"F","r","u","i","t">>, price |-> 149],
    [id |-> "p3", name |-> <<"B","a","n","a","n","a">>, category |-> <<"F","r","u","i","t">>, price |-> 129],
    [id |-> "p4", name |-> <<"C","i","t","r","u","s"," ","S","o","d","a">>, category |-> <<"B","e","v","e","r","a","g","e","s">>, price |-> 199],
    [id |-> "p5", name |-> <<"E","g","g","s">>, category |-> <<"D","a","i","r","y">>, price |-> 399],
    [id |-> "p8", name |-> <<"N","a","t","u","r","a","l"," ","O","r","a","n","g","e"," ","J","u","i","c","e">>, category |-> <<"B","e","v","e","r","a","g","e","s">>, price |-> 349],
    [id |-> "p6", name |-> <<"O","r","a","n","g","e">>, category |-> <<"F","r","u","i","t">>, price |-> 129],
    [id |-> "p7", name |-> <<"T","o","m","a","t","o">>, category |-> <<"V","e","g","e","t","a","b","l","e">>, price |-> 129]
  >>

\* "Product | null": the value a matcher returns when nothing matches
NullProduct == [id |-> "null", name |-> <<>>, category |-> <<>>, price |-> 0]

\* The catalogs of the model: every subset of the products, ordered by name
CatalogOf(ids) == SelectSeq(ProductsByName, LAMBDA p : p.id \in ids)

Catalogs == { CatalogOf(ids) : ids \in SUBSET { ProductsByName[i].id : i \in 1..Len(ProductsByName) } }

\* Labels the vision service may report
Labels == {
    <<"b","a","n","a","n","a">>,
    <<"B","a","n","a","n","a","s">>,
    <<"C","i","t","r","u","s"," ","f","r","u","i","t">>,
    <<"F","r","e","s","h"," ","f","r","u","i","t">>,
    <<"E","g","g","s">>,
    <<"L","a","p","t","o","p">>,
    <<"N","a","t","u","r","a","l"," ","f","o","o","d">>,
    <<"O","r","a","n","g","e"," ","j","u","i","c","e">>,
    <<"T","o","m","a","t","o">>,
    <<"T","o","m","a","t","o"," ","a","n","d"," ","e","g","g">>,
    <<"V","e","g","e","t","a","b","l","e">>
  }

\* getProducts(params): optional case-insensitive name filter (ilike
\* '%name%', skipped for an empty name), ordered by name; [] on error
getProducts(hasName, name, ok) ==
  IF ~ok THEN <<>>
  ELSE IF hasName /\ Len(name) > 0
       THEN SelectSeq(catalog, LAMBDA p : includes(toLowerCase(p.name), toLowerCase(name)))
       ELSE catalog

\* Array.prototype.find: the first element that passes, or null
FirstOr(seq, default) == IF Len(seq) > 0 THEN seq[1] ELSE default

(***************************************************************************)
(* Product matcher of services/vision.ts                                   *)
(***************************************************************************)
stopWords == {
    <<"f","o","o","d">>,
    <<"f","r","e","s","h">>,
    <<"r","i","p","e">>,
    <<"j","u","i","c","y">>,
    <<"s","w","e","e","t">>,
    <<"p","r","o","d","u","c","t">>,
    <<"i","t","e","m">>,
    <<"n","a","t","u","r","a","l">>
  }

fruitWord == <<"f","r","u","i","t">>

vegetableWord == <<"v","e","g","e","t","a","b","l","e">>

\* the words of the per-word step: longer than 3 characters, not a stopword
usefulWords(normalizedProductName) ==
  SelectSeq(split(normalizedProductName), LAMBDA word : Len(word) > 3 /\ toLowerCase(word) \notin stopWords)

\* the first product that some useful word selects, trying the words in order
RECURSIVE firstWordMatch(_, _)
firstWordMatch(words, allProducts) ==
  IF Len(words) = 0 THEN NullProduct
  ELSE LET wordMatch == FirstOr(SelectSeq(allProducts, LAMBDA product : includes(toLowerCase(product.name), words[1])), NullProduct)
       IN IF wordMatch # NullProduct THEN wordMatch ELSE firstWordMatch(Tail(words), allProducts)

\* a fallback that takes the first product whatever its category
categoryMatchAny(normalizedProductName, allProducts) ==
  IF includes(normalizedProductName, fruitWord) \/ includes(normalizedProductName, vegetableWord)
  THEN FirstOr(allProducts, NullProduct)
  ELSE NullProduct

\* the category fallback: "fruit" first, then "vegetable"
categoryMatch(normalizedProductName, allProducts) ==
  LET fruitProducts == SelectSeq(allProducts, LAMBDA product : toLowerCase(product.category) = fruitWord)
      vegetableProducts == SelectSeq(allProducts, LAMBDA product : toLowerCase(product.category) = vegetableWord)
  IN IF includes(normalizedProductName, fruitWord) /\ Len(fruitProducts) > 0 THEN fruitProducts[1]
     ELSE IF includes(normalizedProductName, vegetableWord) /\ Len(vegetableProducts) > 0 THEN vegetableProducts[1]
     ELSE NullProduct

getProductFromDatabase(productName) ==
  LET normalizedProductName == normalizeLabel(productName)
      exactProducts == getProducts(TRUE, normalizedProductName, nameQueryOk)
      allProducts == getProducts(FALSE, <<>>, allQueryOk)
      exactMatch == FirstOr(SelectSeq(allProducts, LAMBDA product : toLowerCase(product.name) = normalizedProductName), NullProduct)
      containsMatches == SelectSeq(allProducts, LAMBDA product :
                            \/ includes(toLowerCase(product.name), normalizedProductName)
                            \/ includes(normalizedProductName, toLowerCase(product.name)))
      wordMatch == firstWordMatch(usefulWords(normalizedProductName), allProducts)
  IN IF Len(exactProducts) > 0 THEN exactProducts[1]
     ELSE IF Len(allProducts) = 0 THEN NullProduct
     ELSE IF exactMatch # NullProduct THEN exactMatch
     ELSE IF Len(containsMatches) > 0 THEN containsMatches[1]
     ELSE IF wordMatch # NullProduct THEN wordMatch
     ELSE categoryMatch(normalizedProductName, allProducts)

(***************************************************************************)
(* Product matcher of the earlier recognition service kept in              *)
(* services/cart.ts (findBestProductMatch)                                 *)
(***************************************************************************)
commonWords == {
    <<"f","o","o","d">>,
    <<"f","r","e","s","h">>,
    <<"r","i","p","e">>,
    <<"j","u","i","c","y">>,
    <<"s","w","e","e","t">>
  }

fruitsWord == <<"f","r","u","i","t","s">>

\* no sorting: the containment matches stay in catalog order
containsBeforeUnsorted(a, b, normalizedName) == FALSE

\* sort key of the containment step: names inside the search term first,
\* then the smaller distance between name length and search-term length
containsBefore(a, b, normalizedName) ==
  LET aInSearch == includes(normalizedName, normalizeLabel(a.name))
      bInSearch == includes(normalizedName, normalizeLabel(b.name))
      aDiff == Abs(Len(a.name) - Len(normalizedName))
      bDiff == Abs(Len(b.name) - Len(normalizedName))
  IN IF aInSearch /\ ~bInSearch THEN TRUE
     ELSE IF ~aInSearch /\ bInSearch THEN FALSE
     ELSE aDiff < bDiff

\* first element of the (stable) sorted containment matches
bestContainsMatch(containsMatches, normalizedName) ==
  LET i == CHOOSE i \in 1..Len(containsMatches) :
             /\ \A j \in 1..Len(containsMatches) : ~containsBefore(containsMatches[j], containsMatches[i], normalizedName)
             /\ \A j \in 1..(i - 1) : containsBefore(containsMatches[i], containsMatches[j], normalizedName)
  IN containsMatches[i]

RECURSIVE firstWordMatches(_, _)
firstWordMatches(words, allProducts) ==
  IF Len(words) = 0 THEN NullProduct
  ELSE LET wordMatches == SelectSeq(allProducts, LAMBDA p : includes(normalizeLabel(p.name), words[1]))
       IN IF words[1] \notin commonWords /\ Len(wordMatches) > 0 THEN wordMatches[1]
          ELSE firstWordMatches(Tail(words), allProducts)

findBestProductMatch(name) ==
  LET normalizedName == normalizeLabel(name)
      allProducts == getProducts(FALSE, <<>>, allQueryOk)
      exactMatch == FirstOr(SelectSeq(allProducts, LAMBDA p : normalizeLabel(p.name) = normalizedName), NullProduct)
      containsMatches == SelectSeq(allProducts, LAMBDA p :
                            \/ includes(normalizeLabel(p.name), normalizedName)
                            \/ includes(normalizedName, normalizeLabel(p.name)))
      words == SelectSeq(split(normalizedName), LAMBDA w : Len(w) > 3)
      wordMatch == IF includes(normalizedName, <<" ">>) THEN firstWordMatches(words, allProducts) ELSE NullProduct
      fruitProducts == SelectSeq(allProducts, LAMBDA p : toLowerCase(p.category) = fruitsWord)
  IN IF Len(allProducts) = 0 THEN NullProduct
     ELSE IF exactMatch # NullProduct THEN exactMatch
     ELSE IF Len(containsMatches) > 0 THEN bestContainsMatch(containsMatches, normalizedName)
     ELSE IF wordMatch # NullProduct THEN wordMatch
     ELSE IF includes(normalizedName, fruitWord) /\ Len(fruitProducts) > 0 THEN fruitProducts[1]
     ELSE NullProduct

(***************************************************************************)
(* Recognition orchestrator: recognizeFoodWithVision, in services/vision.ts *)
(* and in the two earlier copies kept in services/cart.ts                  *)
(***************************************************************************)
MOCK_FOOD_ITEMS == <<
    [name |-> <<"A","p","p","l","e">>, price |-> 149, category |-> <<"F","r","u","i","t">>, productId |-> "mock-001"],
    [name |-> <<"B","a","n","a","n","a">>, price |-> 99, category |-> <<"F","r","u","i","t">>, productId |-> "mock-002"],
    [name |-> <<"O","r","a","n","g","e">>, price |-> 129, category |-> <<"F","r","u","i","t">>, productId |-> "mock-003"],
    [name |-> <<"T","o","m","a","t","o">>, price |-> 299, category |-> <<"V","e","g","e","t","a","b","l","e">>, productId |-> "mock-004"],
    [name |-> <<"C","a","r","r","o","t">>, price |-> 119, category |-> <<"V","e","g","e","t","a","b","l","e">>, productId |-> "mock-005"]
  >>

\* a projection that loses the product id
createRecognizedItemUnidentified(product) ==
  [name |-> product.name, price |-> product.price, category |-> product.category, productId |-> "unknown"]

\* projection of a catalog product into a RecognizedFoodItem
createRecognizedItem(product) ==
  [name |-> product.name, price |-> product.price, category |-> product.category, productId |-> product.id]

\* the "Not in database" sentinel item
createNotInDatabaseItem ==
  [name |-> <<"N","o","t"," ","i","n"," ","d","a","t","a","b","a","s","e">>, price |-> 0, category |-> <<"U","n","k","n","o","w","n">>, productId |-> "unknown"]

\* [...xs].sort((a, b) => b.score - a.score): stable, descending by score
RECURSIVE insertByScore(_, _)
insertByScore(x, sorted) ==
  IF Len(sorted) = 0 THEN <<x>>
  ELSE IF sorted[1].score >= x.score THEN <<sorted[1]>> \o insertByScore(x, Tail(sorted))
  ELSE <<x>> \o sorted

RECURSIVE sortByScore(_)
sortByScore(xs) ==
  IF Len(xs) = 0 THEN <<>>
  ELSE insertByScore(xs[Len(xs)], sortByScore(SubSeq(xs, 1, Len(xs) - 1)))

\* Array.prototype.slice(0, n)
slice(xs, n) == SubSeq(xs, 1, Min(n, Len(xs)))

TopLabels == 3

TopEntities == 3

\* processVisionLabel over a list of labels: a label is matched only when
\* isFood accepts it; the first product found ends the search.  The
\* result carries the matcher calls made so far.
RECURSIVE processVisionLabels(_, _)
processVisionLabels(labels, calls) ==
  IF Len(labels) = 0 THEN [product |-> NullProduct, calls |-> calls]
  ELSE IF Len(labels[1]) > 0 /\ isFood(labels[1])
       THEN LET product == getProductFromDatabase(labels[1])
            IN IF product # NullProduct
               THEN [product |-> product, calls |-> Append(calls, labels[1])]
               ELSE processVisionLabels(Tail(labels), Append(calls, labels[1]))
       ELSE processVisionLabels(Tail(labels), calls)

descriptions(xs) == [i \in 1..Len(xs) |-> xs[i].description]

\* the candidates in the order the code tries them: best guess, the top
\* label annotations by score, the first web entities
visionCandidates ==
  (IF Len(bestGuessLabel) > 0 THEN <<bestGuessLabel>> ELSE <<>>)
    \o descriptions(slice(sortByScore(labelAnnotations), TopLabels))
    \o descriptions(slice(webEntities, TopEntities))

\* the part of recognizeFoodWithVision after a 2xx response
recognizeFromResponse ==
  LET found == processVisionLabels(visionCandidates, <<>>)
  IN [items |-> IF found.product # NullProduct
                THEN <<createRecognizedItem(found.product)>>
                ELSE <<createNotInDatabaseItem>>,
      calls |-> found.calls]

\* every failed response treated as an invalid key
invalidKeyResponseAny == httpStatus # "ok"

\* response.status === 400 && errorText.includes('API key')
invalidKeyResponse == httpStatus = "badkey"

\* recognizeFoodWithVision of services/vision.ts
recognizeFoodWithVision ==
  /\ rpc = "idle"
  /\ rpc' = "vision"
  /\ IF MOCK_MODE
     THEN /\ recognizedItems' = MOCK_FOOD_ITEMS
          /\ isMocked' = TRUE
          /\ UNCHANGED <<thrown, matcherCalls, fetchCalls>>
     ELSE /\ fetchCalls' = fetchCalls + 1
          /\ IF invalidKeyResponse
             THEN /\ recognizedItems' = MOCK_FOOD_ITEMS
                  /\ isMocked' = TRUE
                  /\ UNCHANGED <<thrown, matcherCalls>>
             ELSE IF httpStatus # "ok"
             THEN /\ thrown' = TRUE
                  /\ UNCHANGED <<recognizedItems, isMocked, matcherCalls>>
             ELSE /\ recognizedItems' = recognizeFromResponse.items
                  /\ matcherCalls' = recognizeFromResponse.calls
                  /\ UNCHANGED <<thrown, isMocked>>
  /\ UNCHANGED <<CatalogVars, MatchVars, VisionVars, CartVars, PageVars>>

\* recognizeFoodWithVision of services/cart.ts, first copy: the same
\* search through processVisionLabel, without the mock substitution
recognizeFoodWithLabels ==
  /\ rpc = "idle"
  /\ rpc' = "labels"
  /\ fetchCalls' = fetchCalls + 1
  /\ IF httpStatus # "ok"
     THEN /\ thrown' = TRUE
          /\ UNCHANGED <<recognizedItems, matcherCalls>>
     ELSE /\ recognizedItems' = recognizeFromResponse.items
          /\ matcherCalls' = recognizeFromResponse.calls
          /\ UNCHANGED thrown
  /\ UNCHANGED <<isMocked, CatalogVars, MatchVars, VisionVars, CartVars, PageVars>>

MinScore == 70

BestGuessConfidence == 95

TopMatchLabels == 5

\* possibleMatches of the second copy: food labels above the score
\* threshold, then sorted by confidence
possibleMatches ==
  LET best == IF Len(bestGuessLabel) > 0 /\ isFood(bestGuessLabel)
              THEN <<[description |-> bestGuessLabel, score |-> BestGuessConfidence]>> ELSE <<>>
      labels == slice(SelectSeq(labelAnnotations, LAMBDA label : label.score > MinScore /\ isFood(label.description)), TopMatchLabels)
      entities == slice(SelectSeq(webEntities, LAMBDA entity :
                     entity.score > MinScore /\ Len(entity.description) > 0 /\ isFood(entity.description)), TopEntities)
  IN sortByScore(best \o labels \o entities)

\* the loop over possibleMatches: first product found wins
RECURSIVE tryMatches(_, _)
tryMatches(matches, calls) ==
  IF Len(matches) = 0 THEN [product |-> NullProduct, calls |-> calls]
  ELSE LET product == findBestProductMatch(matches[1].description)
       IN IF product # NullProduct
          THEN [product |-> product, calls |-> Append(calls, matches[1].description)]
          ELSE tryMatches(Tail(matches), Append(calls, matches[1].description))

recognizeFromMatches ==
  LET direct == IF Len(bestGuessLabel) > 0 THEN findBestProductMatch(bestGuessLabel) ELSE NullProduct
      first == IF Len(bestGuessLabel) > 0 THEN <<bestGuessLabel>> ELSE <<>>
      found == tryMatches(possibleMatches, first)
  IN IF direct # NullProduct
     THEN [items |-> <<createRecognizedItem(direct)>>, calls |-> first]
     ELSE [items |-> IF found.product # NullProduct
                     THEN <<createRecognizedItem(found.product)>>
                     ELSE <<createNotInDatabaseItem>>,
           calls |-> found.calls]

\* recognizeFoodWithVision of services/cart.ts, second copy
recognizeFoodWithMatches ==
  /\ rpc = "idle"
  /\ rpc' = "matches"
  /\ fetchCalls' = fetchCalls + 1
  /\ IF httpStatus # "ok"
     THEN /\ thrown' = TRUE
          /\ UNCHANGED <<recognizedItems, matcherCalls>>
     ELSE /\ recognizedItems' = recognizeFromMatches.items
          /\ matcherCalls' = recognizeFromMatches.calls
          /\ UNCHANGED thrown
  /\ UNCHANGED <<isMocked, CatalogVars, MatchVars, VisionVars, CartVars, PageVars>>

(***************************************************************************)
(* Cart state manager: backend tables (sql/), the cart service             *)
(* (services/cart.ts) and the useCart hook (hooks/useCart.ts)              *)
(***************************************************************************)
DEMO_USER_ID == "demo-user"

AuthUser == "user-1"

\* bounds of the cart model
MaxCarts == 2

MaxItemRows == 2

MaxLoads == 1

MaxQty == 3

MaxOps == 3

CartProducts == {"p1", "p3"}

AddQuantities == {-1, 1, 2}

UpdateQuantities == {-1, 0, 2}

PaymentMethods == {"credit_card"}

\* ids made by generateUUID on the device; backend ids are 1, 2, ...
LocalIds == 101..108

\* the id 'demo-cart-id', the only id that is not a UUID
DemoCartId == 0

isValidUUID(id) == id # DemoCartId

\* "no cart" (null) and "no item" (null)
NullCart == [id |-> -1, user_id |-> "null", status |-> "null", items |-> <<>>]

NullItem == [id |-> -1, cart_id |-> -1, product_id |-> "null", quantity |-> 0]

isDemoUser == hookUser = DEMO_USER_ID

Slots == 0..MaxLoads

LoadSlots == 1..MaxLoads

IdleTask ==
  [kind |-> "idle", pc |-> "idle", product |-> "null", quantity |-> 0, item |-> -1,
   paymentMethod |-> "null", closure |-> NullCart, cartId |-> -1, existing |-> NullItem,
   failed |-> FALSE, returned |-> "null", result |-> NullCart]

Free(s) == tasks[s].pc \in {"idle", "done"}

\* rows as a list, in id order
RECURSIVE RowsById(_)
RowsById(rows) ==
  IF rows = {} THEN <<>>
  ELSE LET r == CHOOSE r \in rows : \A o \in rows : r.id <= o.id
       IN <<r>> \o RowsById(rows \ {r})

Range(seq) == { seq[i] : i \in 1..Len(seq) }

\* carts of a user with status 'active'
ActiveCartsOf(userId) == { c \in 1..Len(carts) : carts[c].user_id = userId /\ carts[c].status = "active" }

\* .eq('status','active').order('created_at', desc).limit(1): the newest one
LatestActiveCart(userId) == CHOOSE c \in ActiveCartsOf(userId) : \A o \in ActiveCartsOf(userId) : o <= c

\* cart_items of one cart, as the select returns them
ItemsOfCart(cartId) == RowsById({ r \in cart_items : r.cart_id = cartId })

\* a find that compares the wrong field and so never sees the product
FindByProductNever(items, productId) == NullItem

\* Array.prototype.find / findIndex on the items of a cart
FindByProduct(items, productId) ==
  IF \E i \in 1..Len(items) : items[i].product_id = productId
  THEN items[CHOOSE i \in 1..Len(items) : items[i].product_id = productId /\ \A j \in 1..(i - 1) : items[j].product_id # productId]
  ELSE NullItem

HasItem(items, itemId) == \E i \in 1..Len(items) : items[i].id = itemId

\* items.filter(item => item.id !== cartItemId)
WithoutItem(items, itemId) == SelectSeq(items, LAMBDA it : it.id # itemId)

\* items[index].quantity = quantity for the item with that id
WithQuantity(items, itemId, quantity) ==
  [i \in 1..Len(items) |-> IF items[i].id = itemId THEN [items[i] EXCEPT !.quantity = quantity] ELSE items[i]]

\* ids in use on the device, so that generateUUID never repeats one
UsedCartIds ==
  {cart.id, stored.id} \cup { tasks[s].closure.id : s \in Slots }
    \cup { it.cart_id : it \in Range(cart.items) \cup Range(stored.items) }
    \cup UNION { { it.cart_id : it \in Range(tasks[s].closure.items) } : s \in Slots }

UsedItemIds ==
  { it.id : it \in Range(cart.items) \cup Range(stored.items) }
    \cup UNION { { it.id : it \in Range(tasks[s].closure.items) } : s \in Slots }

\* generateUUID: an id that is in use nowhere
generateUUID(used) == CHOOSE id \in LocalIds : id \notin used /\ \A o \in LocalIds : o \notin used => id <= o

(***************************************************************************)
(* Hook state and its local updates (hooks/useCart.ts)                     *)
(***************************************************************************)
Hook == [cart |-> cart, stored |-> stored, error |-> error, initialLoadDone |-> initialLoadDone]

SetHook(h) ==
  /\ cart' = h.cart
  /\ stored' = h.stored
  /\ error' = h.error
  /\ initialLoadDone' = h.initialLoadDone

\* setCart(cartData) followed by persistCart(cartData)
persistCart(h, cartData) == IF cartData = NullCart THEN h ELSE [h EXCEPT !.stored = cartData]

setAndPersist(h, cartData) == persistCart([h EXCEPT !.cart = cartData], cartData)

\* loadPersistedCart: the stored blob, when there is one, becomes the cart
loadPersistedCart(h) == IF h.stored # NullCart THEN [h EXCEPT !.cart = h.stored] ELSE h

emptyCart(id) == [id |-> id, user_id |-> hookUser, status |-> "active", items |-> <<>>]

\* loadCart for the demo user: storage first, else a new empty cart
loadCartDemo(h) ==
  LET loaded == loadPersistedCart(h)
      demoCart == emptyCart(generateUUID(UsedCartIds))
      created == IF h.stored # NullCart THEN loaded ELSE setAndPersist(h, demoCart)
  IN [created EXCEPT !.error = "null", !.initialLoadDone = TRUE]

\* a load that keeps the local cart and only clears the error
loadCartReturnKeepLocal(h, cartData) ==
  [h EXCEPT !.error = "null", !.initialLoadDone = TRUE]

\* loadCart after getActiveCart returned cartData
loadCartReturn(h, cartData) ==
  [setAndPersist(h, cartData) EXCEPT !.error = "null", !.initialLoadDone = TRUE]

\* loadCart after getActiveCart threw
loadCartThrow(h) ==
  LET failedLoad == [h EXCEPT !.error = "Failed to load cart"]
  IN IF ~h.initialLoadDone THEN loadPersistedCart(failedLoad) ELSE failedLoad

\* the local update of addProductToCart: quantity += quantity on the item
\* of that product, else push cartItem or a new local item
addLocally(closure, productId, quantity, cartItem) ==
  LET existing == FindByProduct(closure.items, productId)
      newItem == [id |-> generateUUID(UsedItemIds), cart_id |-> closure.id, product_id |-> productId, quantity |-> quantity]
  IN IF existing # NullItem
     THEN [closure EXCEPT !.items = WithQuantity(closure.items, existing.id, existing.quantity + quantity)]
     ELSE [closure EXCEPT !.items = Append(closure.items, IF cartItem # NullItem THEN cartItem ELSE newItem)]

\* the cart addProductToCart builds when the backend failed and there is no local cart
fallbackCart(productId, quantity) ==
  LET id == generateUUID(UsedCartIds)
      itemCartId == generateUUID(UsedCartIds \cup {id})
  IN [emptyCart(id) EXCEPT !.items = <<[id |-> generateUUID(UsedItemIds), cart_id |-> itemCartId,
                                        product_id |-> productId, quantity |-> quantity]>>]

\* what stays of a call once its locals are dead: its kind and its outcome
Result(t) == [IdleTask EXCEPT !.kind = t.kind, !.failed = t.failed, !.returned = t.returned]

Done(t) == IF t.kind = "load" THEN IdleTask ELSE [Result(t) EXCEPT !.pc = "done"]

\* quantities stay within the bound of the model
QuantitiesOf(productId) ==
  { r.quantity : r \in { r \in cart_items : r.product_id = productId } }
    \cup { it.quantity : it \in { it \in Range(cart.items) \cup Range(stored.items) : it.product_id = productId } }
    \cup {0}

QuantityInBound(productId, quantity) ==
  \A q \in QuantitiesOf(productId) : q + quantity <= MaxQty /\ q + quantity >= 0 - MaxQty

(***************************************************************************)
(* Cart service calls (services/cart.ts) against the tables                *)
(***************************************************************************)
\* removeCartItem: delete by id; true unless the backend fails
removeCartItem(cartItemId, ok) ==
  IF ~isValidUUID(cartItemId) THEN [rows |-> cart_items, result |-> TRUE]
  ELSE IF ok THEN [rows |-> { r \in cart_items : r.id # cartItemId }, result |-> TRUE]
  ELSE [rows |-> cart_items, result |-> FALSE]

\* updateCartItemQuantity: null for a negative quantity, removal for 0,
\* else the update of one row; every backend error becomes null
updateCartItemQuantity(cartItemId, quantity, ok) ==
  IF quantity < 0 THEN [rows |-> cart_items, item |-> NullItem]
  ELSE IF ~isValidUUID(cartItemId)
  THEN [rows |-> cart_items,
        item |-> [id |-> cartItemId, cart_id |-> DemoCartId, product_id |-> "demo-product-id", quantity |-> quantity]]
  ELSE IF quantity = 0 THEN [rows |-> removeCartItem(cartItemId, ok).rows, item |-> NullItem]
  ELSE IF ok /\ \E r \in cart_items : r.id = cartItemId
  THEN LET row == CHOOSE r \in cart_items : r.id = cartItemId
           updated == [row EXCEPT !.quantity = quantity]
       IN [rows |-> (cart_items \ {row}) \cup {updated}, item |-> updated]
  ELSE [rows |-> cart_items, item |-> NullItem]

\* whether the call reaches the backend at all
updateCallsBackend(cartItemId, quantity) == quantity >= 0 /\ isValidUUID(cartItemId)

\* the table without its UNIQUE(cart_id, product_id)
insertAllowedTwice(cartId, productId, quantity) ==
  /\ quantity > 0
  /\ cartId \in 1..Len(carts)
  /\ carts[cartId].user_id = hookUser
  /\ nextItemId <= MaxItemRows

\* the constraints of the cart_items table on an insert
insertAllowed(cartId, productId, quantity) ==
  /\ quantity > 0
  /\ cartId \in 1..Len(carts)
  /\ carts[cartId].user_id = hookUser
  /\ ~\E r \in cart_items : r.cart_id = cartId /\ r.product_id = productId
  /\ nextItemId <= MaxItemRows

(***************************************************************************)
(* getActiveCart, one step per backend call, run by the call in slot s     *)
(***************************************************************************)
\* what the caller does with the cart that getActiveCart returned:
\* addToCart goes on to its write, loadCart installs and persists the cart
getActiveCartReturn(s, cartData) ==
  IF tasks[s].kind \in {"add", "device"}
  THEN /\ tasks' = [tasks EXCEPT ![s] = [@ EXCEPT !.pc = "atc_write", !.cartId = cartData.id,
                                             !.existing = FindByProduct(cartData.items, tasks[s].product)]]
       /\ UNCHANGED HookVars
  ELSE IF tasks[s].kind = "get"
  THEN /\ tasks' = [tasks EXCEPT ![s] = [@ EXCEPT !.pc = "done", !.returned = "cart", !.result = cartData]]
       /\ UNCHANGED HookVars
  ELSE /\ SetHook(loadCartReturn(Hook, cartData))
       /\ tasks' = [tasks EXCEPT ![s] = Done(@)]

\* what the caller does when getActiveCart threw: addProductToCart falls
\* back to the local cart, loadCart sets the error, an addToCart called
\* from another device and a direct call of getActiveCart just reject
getActiveCartThrow(s) ==
  IF tasks[s].kind = "add"
  THEN LET t == tasks[s]
           local == IF t.closure # NullCart
                    THEN addLocally(t.closure, t.product, t.quantity, NullItem)
                    ELSE fallbackCart(t.product, t.quantity)
       IN /\ SetHook(setAndPersist(Hook, local))
          /\ tasks' = [tasks EXCEPT ![s] = Done([@ EXCEPT !.failed = TRUE, !.returned = "item"])]
  ELSE IF tasks[s].kind = "device"
  THEN /\ tasks' = [tasks EXCEPT ![s] = [@ EXCEPT !.pc = "done", !.failed = TRUE]]
       /\ UNCHANGED HookVars
  ELSE IF tasks[s].kind = "get"
  THEN /\ tasks' = [tasks EXCEPT ![s] = [@ EXCEPT !.pc = "done", !.failed = TRUE, !.returned = "rejected"]]
       /\ UNCHANGED HookVars
  ELSE /\ SetHook(loadCartThrow(Hook))
       /\ tasks' = [tasks EXCEPT ![s] = Done([@ EXCEPT !.failed = TRUE])]

\* a mock cart that takes a fresh id, like the carts the hook makes
createMockCartWithNewId ==
  [id |-> generateUUID(UsedCartIds), user_id |-> DEMO_USER_ID, status |-> "active", items |-> <<>>]

\* createMockCartForDemoUser: the cart 'demo-cart-id' without items
createMockCartForDemoUser ==
  [id |-> DemoCartId, user_id |-> DEMO_USER_ID, status |-> "active", items |-> <<>>]

\* getActiveCart of the demo user after a backend call failed or found no
\* cart: the mock cart is returned
returnMockCart(s, ok) ==
  /\ tasks' = [tasks EXCEPT ![s] = [@ EXCEPT !.pc = "done", !.failed = ~ok, !.returned = "cart",
                                             !.result = createMockCartForDemoUser]]
  /\ UNCHANGED HookVars

\* the carts query: the newest active cart of the user, or none
getActiveCart(s) ==
  /\ tasks[s].pc = "gac_cart"
  /\ \E ok \in BOOLEAN :
       IF (~ok \/ ActiveCartsOf(hookUser) = {}) /\ hookUser = DEMO_USER_ID THEN returnMockCart(s, ok)
       ELSE IF ~ok THEN getActiveCartThrow(s)
       ELSE IF ActiveCartsOf(hookUser) = {}
       THEN /\ tasks' = [tasks EXCEPT ![s] = [@ EXCEPT !.pc = "gac_create"]]
            /\ UNCHANGED HookVars
       ELSE /\ tasks' = [tasks EXCEPT ![s] = [@ EXCEPT !.pc = "gac_items", !.cartId = LatestActiveCart(hookUser)]]
            /\ UNCHANGED HookVars
  /\ UNCHANGED <<BackendVars, hookUser, operations, reloadTimer, OtherVars>>

newCartRow(userId) == [user_id |-> userId, status |-> "active", checkout_at |-> FALSE, payment_method |-> "null"]

\* createCart: insert an active cart for the user
createCart(s) ==
  /\ tasks[s].pc = "gac_create"
  /\ \E ok \in BOOLEAN :
       IF ok
       THEN /\ Len(carts) < MaxCarts
            /\ carts' = Append(carts, newCartRow(hookUser))
            /\ getActiveCartReturn(s, emptyCart(Len(carts) + 1))
       ELSE /\ carts' = carts
            /\ getActiveCartThrow(s)
  /\ UNCHANGED <<cart_items, payments, nextItemId, hookUser, operations, reloadTimer, OtherVars>>

\* the cart_items query of getActiveCart
getCartItems(s) ==
  /\ tasks[s].pc = "gac_items"
  /\ \E ok \in BOOLEAN :
       IF ok
       THEN getActiveCartReturn(s, [emptyCart(tasks[s].cartId) EXCEPT !.items = ItemsOfCart(tasks[s].cartId)])
       ELSE IF hookUser = DEMO_USER_ID THEN returnMockCart(s, ok)
       ELSE getActiveCartThrow(s)
  /\ UNCHANGED <<BackendVars, hookUser, operations, reloadTimer, OtherVars>>

(***************************************************************************)
(* loadCart                                                                *)
(***************************************************************************)
\* loadCart(forceRefresh) up to its call of getActiveCart
loadCart(s, forceRefresh) ==
  /\ s \in LoadSlots
  /\ Free(s)
  /\ IF isDemoUser
     THEN /\ SetHook(loadCartDemo(Hook))
          /\ tasks' = [tasks EXCEPT ![s] = Done([IdleTask EXCEPT !.kind = "load"])]
     ELSE /\ SetHook(IF ~forceRefresh /\ ~initialLoadDone THEN loadPersistedCart(Hook) ELSE Hook)
          /\ tasks' = [tasks EXCEPT ![s] = [IdleTask EXCEPT !.kind = "load", !.pc = "gac_cart"]]
  /\ UNCHANGED <<BackendVars, hookUser, operations, reloadTimer, OtherVars>>

\* the timer set by checkout fires: loadCart(true)
delayedReload(s) ==
  /\ reloadTimer
  /\ reloadTimer' = FALSE
  /\ s \in LoadSlots
  /\ Free(s)
  /\ IF isDemoUser
     THEN /\ SetHook(loadCartDemo(Hook))
          /\ tasks' = [tasks EXCEPT ![s] = Done([IdleTask EXCEPT !.kind = "load"])]
     ELSE /\ tasks' = [tasks EXCEPT ![s] = [IdleTask EXCEPT !.kind = "load", !.pc = "gac_cart"]]
          /\ UNCHANGED HookVars
  /\ UNCHANGED <<BackendVars, hookUser, operations, OtherVars>>

(***************************************************************************)
(* addProductToCart / addToCart                                            *)
(***************************************************************************)
UserTask(kind) == [IdleTask EXCEPT !.kind = kind, !.closure = cart]

\* addProductToCart up to its call of addToCart; the demo user is served locally
addProductToCart(productId, quantity) ==
  /\ Free(0)
  /\ operations < MaxOps
  /\ operations' = operations + 1
  /\ QuantityInBound(productId, quantity)
  /\ LET t == [UserTask("add") EXCEPT !.product = productId, !.quantity = quantity]
     IN IF isDemoUser
        THEN IF cart = NullCart
             THEN \* loadCart(), then a new cart is set; the add itself is dropped
                  LET loaded == loadCartDemo(Hook)
                      newCart == emptyCart(generateUUID(UsedCartIds \cup {loaded.cart.id}))
                  IN /\ SetHook([loaded EXCEPT !.cart = newCart])
                     /\ tasks' = [tasks EXCEPT ![0] = Done(t)]
             ELSE /\ SetHook(setAndPersist(Hook, addLocally(cart, productId, quantity, NullItem)))
                  /\ tasks' = [tasks EXCEPT ![0] = Done([t EXCEPT !.returned = "item"])]
        ELSE /\ tasks' = [tasks EXCEPT ![0] = [t EXCEPT !.pc = "gac_cart"]]
             /\ UNCHANGED HookVars
  /\ UNCHANGED <<BackendVars, hookUser, reloadTimer, OtherVars>>

\* the hook after addToCart returned cartItem (null when the update returned
\* null); ok records whether the backend call went through
addReturn(cartItem, ok) ==
  LET t == [tasks[0] EXCEPT !.failed = ~ok]
  IN IF t.closure # NullCart
     THEN /\ SetHook(setAndPersist(Hook, addLocally(t.closure, t.product, t.quantity, cartItem)))
          /\ tasks' = [tasks EXCEPT ![0] = Done([t EXCEPT !.returned = "item"])]
     ELSE /\ UNCHANGED HookVars
          /\ tasks' = [tasks EXCEPT ![0] = Done([t EXCEPT !.returned = IF cartItem # NullItem THEN "item" ELSE "null"])]

\* the write of addToCart: update the item found in the cart read before,
\* else insert a row; an insert error is thrown to the hook
addToCart ==
  /\ tasks[0].pc = "atc_write"
  /\ LET t == tasks[0]
         quantity == t.existing.quantity + t.quantity
     IN IF t.existing # NullItem
        THEN \E ok \in (IF updateCallsBackend(t.existing.id, quantity) THEN BOOLEAN ELSE {TRUE}) :
               /\ cart_items' = updateCartItemQuantity(t.existing.id, quantity, ok).rows
               /\ nextItemId' = nextItemId
               /\ addReturn(updateCartItemQuantity(t.existing.id, quantity, ok).item, ok)
        ELSE \E ok \in BOOLEAN :
               IF ok /\ insertAllowed(t.cartId, t.product, t.quantity)
               THEN LET row == [id |-> nextItemId, cart_id |-> t.cartId, product_id |-> t.product, quantity |-> t.quantity]
                    IN /\ cart_items' = cart_items \cup {row}
                       /\ nextItemId' = nextItemId + 1
                       /\ addReturn(row, TRUE)
               ELSE /\ UNCHANGED <<cart_items, nextItemId>>
                    /\ getActiveCartThrow(0)
  /\ UNCHANGED <<carts, payments, hookUser, operations, reloadTimer, OtherVars>>

(***************************************************************************)
(* updateItemQuantity, removeItem, clearCart, checkout                     *)
(***************************************************************************)
CartItemIds == { cart.items[i].id : i \in 1..Len(cart.items) }

\* updateItemQuantity up to its backend call; the demo user is served locally
updateItemQuantity(cartItemId, quantity) ==
  /\ Free(0)
  /\ operations < MaxOps
  /\ operations' = operations + 1
  /\ cartItemId \in CartItemIds
  /\ LET t == [UserTask("update") EXCEPT !.item = cartItemId, !.quantity = quantity]
         items == IF quantity <= 0 THEN WithoutItem(cart.items, cartItemId)
                  ELSE WithQuantity(cart.items, cartItemId, quantity)
     IN IF isDemoUser /\ cart # NullCart
        THEN /\ SetHook(setAndPersist(Hook, [cart EXCEPT !.items = items]))
             /\ tasks' = [tasks EXCEPT ![0] = Done([t EXCEPT !.returned = IF quantity <= 0 THEN "null" ELSE "item"])]
        ELSE /\ tasks' = [tasks EXCEPT ![0] = [t EXCEPT !.pc = "ucq_write"]]
             /\ UNCHANGED HookVars
  /\ UNCHANGED <<BackendVars, hookUser, reloadTimer, OtherVars>>

\* the rest of an operation that ends with loadCart(true)
thenLoadCart(t) ==
  IF isDemoUser
  THEN /\ SetHook(loadCartDemo(Hook))
       /\ tasks' = [tasks EXCEPT ![0] = Done(t)]
  ELSE /\ UNCHANGED HookVars
       /\ tasks' = [tasks EXCEPT ![0] = [Result(t) EXCEPT !.pc = "gac_cart"]]

\* updateItemQuantity: the call of updateCartItemQuantity, then loadCart(true)
updateItemQuantityWrite ==
  /\ tasks[0].pc = "ucq_write"
  /\ LET t == tasks[0]
     IN \E ok \in (IF updateCallsBackend(t.item, t.quantity) THEN BOOLEAN ELSE {TRUE}) :
          LET r == updateCartItemQuantity(t.item, t.quantity, ok)
          IN /\ cart_items' = r.rows
             /\ thenLoadCart([t EXCEPT !.failed = ~ok, !.returned = IF r.item # NullItem THEN "item" ELSE "null"])
  /\ UNCHANGED <<carts, payments, nextItemId, hookUser, operations, reloadTimer, OtherVars>>

\* removeItem up to its backend call; the demo user is served locally
removeItem(cartItemId) ==
  /\ Free(0)
  /\ operations < MaxOps
  /\ operations' = operations + 1
  /\ cartItemId \in CartItemIds
  /\ LET t == [UserTask("remove") EXCEPT !.item = cartItemId]
     IN IF isDemoUser /\ cart # NullCart
        THEN /\ SetHook(setAndPersist(Hook, [cart EXCEPT !.items = WithoutItem(cart.items, cartItemId)]))
             /\ tasks' = [tasks EXCEPT ![0] = Done([t EXCEPT !.returned = "true"])]
        ELSE /\ tasks' = [tasks EXCEPT ![0] = [t EXCEPT !.pc = "rci_write"]]
             /\ UNCHANGED HookVars
  /\ UNCHANGED <<BackendVars, hookUser, reloadTimer, OtherVars>>

\* the catch branch of removeItem taken for a false result
removeItemFalseOptimistic(h, cartItemId) ==
  LET failedRemove == [h EXCEPT !.error = "Failed to remove item from cart"]
  IN IF h.cart # NullCart
     THEN setAndPersist(failedRemove, [h.cart EXCEPT !.items = WithoutItem(h.cart.items, cartItemId)])
     ELSE failedRemove

\* removeItem after removeCartItem returned false: nothing but return false
removeItemFalse(h, cartItemId) == h

\* removeItem: the call of removeCartItem, then loadCart(true) when it returned true
removeItemWrite ==
  /\ tasks[0].pc = "rci_write"
  /\ LET t == tasks[0]
     IN \E ok \in BOOLEAN :
          LET r == removeCartItem(t.item, ok)
          IN /\ cart_items' = r.rows
             /\ IF r.result
                THEN thenLoadCart([t EXCEPT !.returned = "true"])
                ELSE /\ SetHook(removeItemFalse(Hook, t.item))
                     /\ tasks' = [tasks EXCEPT ![0] = Done([t EXCEPT !.failed = TRUE, !.returned = "false"])]
  /\ UNCHANGED <<carts, payments, nextItemId, hookUser, operations, reloadTimer, OtherVars>>

\* clearCart up to its backend calls; the demo user is served locally
clearCart ==
  /\ Free(0)
  /\ operations < MaxOps
  /\ operations' = operations + 1
  /\ LET t == UserTask("clear")
     IN IF cart = NullCart
        THEN /\ tasks' = [tasks EXCEPT ![0] = Done([t EXCEPT !.returned = "false"])]
             /\ UNCHANGED HookVars
        ELSE IF isDemoUser
        THEN /\ SetHook(setAndPersist(Hook, [cart EXCEPT !.items = <<>>]))
             /\ tasks' = [tasks EXCEPT ![0] = Done([t EXCEPT !.returned = "true"])]
        ELSE /\ tasks' = [tasks EXCEPT ![0] = [t EXCEPT !.pc = "clr_write"]]
             /\ UNCHANGED HookVars
  /\ UNCHANGED <<BackendVars, hookUser, reloadTimer, OtherVars>>

\* clearCart: one removeCartItem per item, each of which may fail, then loadCart(true)
clearCartWrite ==
  /\ tasks[0].pc = "clr_write"
  /\ LET t == tasks[0]
         ids == { t.closure.items[i].id : i \in 1..Len(t.closure.items) }
     IN \E removed \in SUBSET ids :
          /\ cart_items' = { r \in cart_items : r.id \notin removed }
          /\ thenLoadCart([t EXCEPT !.failed = (removed # ids), !.returned = "true"])
  /\ UNCHANGED <<carts, payments, nextItemId, hookUser, operations, reloadTimer, OtherVars>>

\* checkout up to its backend call; the demo user is served locally
checkout(paymentMethod) ==
  /\ Free(0)
  /\ operations < MaxOps
  /\ operations' = operations + 1
  /\ LET t == [UserTask("checkout") EXCEPT !.paymentMethod = paymentMethod]
     IN IF cart = NullCart
        THEN /\ tasks' = [tasks EXCEPT ![0] = Done([t EXCEPT !.returned = "false"])]
             /\ UNCHANGED HookVars
        ELSE IF isDemoUser
        THEN /\ SetHook(setAndPersist([Hook EXCEPT !.stored = NullCart], emptyCart(generateUUID(UsedCartIds))))
             /\ tasks' = [tasks EXCEPT ![0] = Done([t EXCEPT !.returned = "true"])]
        ELSE /\ tasks' = [tasks EXCEPT ![0] = [t EXCEPT !.pc = "co_write"]]
             /\ UNCHANGED HookVars
  /\ UNCHANGED <<BackendVars, hookUser, reloadTimer, OtherVars>>

\* a checkout that marks the cart completed but writes no payment method
checkoutCartUnstamped(cartId, paymentMethod, ok) ==
  IF ~isValidUUID(cartId) THEN [rows |-> carts, result |-> TRUE]
  ELSE IF ~ok THEN [rows |-> carts, result |-> FALSE]
  ELSE [rows |-> [c \in 1..Len(carts) |->
                    IF c = cartId /\ carts[c].user_id = hookUser
                    THEN [carts[c] EXCEPT !.status = "completed", !.checkout_at = TRUE]
                    ELSE carts[c]],
        result |-> TRUE]

\* checkoutCart: the status update of the cart row; false on a backend error
checkoutCart(cartId, paymentMethod, ok) ==
  IF ~isValidUUID(cartId) THEN [rows |-> carts, result |-> TRUE]
  ELSE IF ~ok THEN [rows |-> carts, result |-> FALSE]
  ELSE [rows |-> [c \in 1..Len(carts) |->
                    IF c = cartId /\ carts[c].user_id = hookUser
                    THEN [carts[c] EXCEPT !.status = "completed", !.checkout_at = TRUE, !.payment_method = paymentMethod]
                    ELSE carts[c]],
        result |-> TRUE]

\* checkout: the call of checkoutCart; on success the local cart and the
\* stored blob are cleared and the reload timer is set
checkoutWrite ==
  /\ tasks[0].pc = "co_write"
  /\ LET t == tasks[0]
     IN \E ok \in BOOLEAN :
          LET r == checkoutCart(t.closure.id, t.paymentMethod, ok)
          IN /\ carts' = r.rows
             /\ IF r.result
                THEN /\ SetHook([Hook EXCEPT !.cart = NullCart, !.stored = NullCart])
                     /\ reloadTimer' = TRUE
                     /\ tasks' = [tasks EXCEPT ![0] = Done([t EXCEPT !.returned = "true"])]
                ELSE /\ UNCHANGED <<HookVars, reloadTimer>>
                     /\ tasks' = [tasks EXCEPT ![0] = Done([t EXCEPT !.failed = TRUE, !.returned = "false"])]
  /\ UNCHANGED <<cart_items, payments, nextItemId, hookUser, operations, OtherVars>>

(***************************************************************************)
(* Calls of the two product matchers                                       *)
(***************************************************************************)
\* a call of getProductFromDatabase (services/vision.ts) with matchLabel
callGetProductFromDatabase ==
  /\ matcher = "none"
  /\ matcher' = "getProductFromDatabase"
  /\ matched' = getProductFromDatabase(matchLabel)
  /\ UNCHANGED <<matchLabel, CatalogVars, VisionVars, ResultVars, CartVars, PageVars>>

\* a call of findBestProductMatch (services/cart.ts) with matchLabel
callFindBestProductMatch ==
  /\ matcher = "none"
  /\ matcher' = "findBestProductMatch"
  /\ matched' = findBestProductMatch(matchLabel)
  /\ UNCHANGED <<matchLabel, CatalogVars, VisionVars, ResultVars, CartVars, PageVars>>

(***************************************************************************)
(* Initial states                                                          *)
(***************************************************************************)
NoMatcherCall ==
  /\ matchLabel = <<>>
  /\ matched = NullProduct
  /\ matcher = "none"

NoRecognition ==
  /\ bestGuessLabel = <<>>
  /\ labelAnnotations = <<>>
  /\ webEntities = <<>>
  /\ httpStatus = "ok"
  /\ MOCK_MODE = FALSE

\* the stores behind the session-token storage adapter
SECURE_STORE_MAX_SIZE == 2000

STORAGE_KEY_PREFIX == <<"s", "u", "p", "a", "b", "a", "s", "e", ".", "a", "u", "t", "h", ".">>

\* the flag 'STORED_IN_ASYNC_STORAGE'
STORED_IN_ASYNC_STORAGE ==
  <<"S", "T", "O", "R", "E", "D", "_", "I", "N", "_", "A", "S", "Y", "N", "C", "_",
    "S", "T", "O", "R", "A", "G", "E">>

\* an entry of a store: null, or a string
Absent == [found |-> FALSE, value |-> <<>>]

Held(v) == [found |-> TRUE, value |-> v]

\* if (secureValue): null and the empty string are falsy
Truthy(entry) == entry.found /\ entry.value # <<>>

StorageKeys == { <<"t", "o", "k", "e", "n">>, <<"u", "s", "e", "r">> }

asyncStorageKey(key) == STORAGE_KEY_PREFIX \o key

AsyncStorageKeys == { asyncStorageKey(key) : key \in StorageKeys }

Filler(n, c) == [i \in 1..n |-> c]

\* the strings the session client stores: short ones, one of exactly the
\* maximal size, one longer
StorageValues ==
  { <<>>, <<"j", "w", "t">>, STORED_IN_ASYNC_STORAGE,
    Filler(SECURE_STORE_MAX_SIZE, "a"),
    Filler(SECURE_STORE_MAX_SIZE + 1, "a") }

NoWrite == [op |-> "none", value |-> <<>>, threw |-> FALSE]

NoGet == [called |-> FALSE, key |-> <<>>, threw |-> FALSE, result |-> Absent]

NoStorage ==
  /\ secureStore = [key \in StorageKeys |-> Absent]
  /\ asyncStorage = [key \in AsyncStorageKeys |-> Absent]
  /\ written = [key \in StorageKeys |-> NoWrite]
  /\ got = NoGet

\* no cart load yet, nothing cached
NoProducts ==
  /\ productCache = {}
  /\ loadedItems = <<>>
  /\ loadState = "none"

\* the scanner before any press of the scan button; the loading state of
\* the hook starts as true
NoScanning ==
  /\ scanning = FALSE
  /\ cartLoading = TRUE
  /\ scanPc = "idle"
  /\ presses = 0

NullScan == [name |-> <<>>, detected |-> FALSE]

NoScan ==
  /\ scannedItem = NullScan
  /\ detectedProduct = NullProduct
  /\ showDetectedItem = FALSE

NullRequest == [script |-> "none", uid |-> "null", command |-> "none", user_id |-> "null", new_user_id |-> "null"]

NoRequest ==
  /\ request = NullRequest
  /\ decision = "none"

NoNormalize ==
  /\ rawLabel = <<>>
  /\ normalLabel = <<>>
  /\ normalizeCalled = FALSE

NoResult ==
  /\ rpc = "idle"
  /\ recognizedItems = <<>>
  /\ isMocked = FALSE
  /\ thrown = FALSE
  /\ matcherCalls = <<>>
  /\ fetchCalls = 0

\* the tables as the setup scripts leave them, and the hook before its mount effect
CartInit ==
  /\ carts = <<>>
  /\ cart_items = {}
  /\ payments = {}
  /\ nextItemId = 1
  /\ cart = NullCart
  /\ stored = NullCart
  /\ error = "null"
  /\ initialLoadDone = FALSE
  /\ tasks = [s \in Slots |-> IdleTask]
  /\ reloadTimer = FALSE
  /\ operations = 0

FullCatalog ==
  /\ catalog = ProductsByName
  /\ nameQueryOk = TRUE
  /\ allQueryOk = TRUE

(***************************************************************************)
(* The cart state manager                                                  *)
(***************************************************************************)
InitCart ==
  /\ NoProducts
  /\ NoScanning
  /\ NoStorage
  /\ hookUser \in {DEMO_USER_ID, AuthUser}
  /\ CartInit
  /\ FullCatalog
  /\ NoMatcherCall
  /\ NoRecognition
  /\ NoResult
  /\ NoScan
  /\ NoRequest
  /\ NoNormalize

NextCart ==
  \/ \E s \in LoadSlots, forceRefresh \in BOOLEAN : loadCart(s, forceRefresh)
  \/ \E s \in LoadSlots : delayedReload(s)
  \/ \E s \in Slots : getActiveCart(s)
  \/ \E s \in Slots : createCart(s)
  \/ \E s \in Slots : getCartItems(s)
  \/ \E productId \in CartProducts, quantity \in AddQuantities : addProductToCart(productId, quantity)
  \/ addToCart
  \/ \E cartItemId \in CartItemIds, quantity \in UpdateQuantities : updateItemQuantity(cartItemId, quantity)
  \/ updateItemQuantityWrite
  \/ \E cartItemId \in CartItemIds : removeItem(cartItemId)
  \/ removeItemWrite
  \/ clearCart
  \/ clearCartWrite
  \/ \E paymentMethod \in PaymentMethods : checkout(paymentMethod)
  \/ checkoutWrite

SpecCart == InitCart /\ [][NextCart]_vars

(***************************************************************************)
(* The product matchers on their own                                       *)
(***************************************************************************)
InitMatch ==
  /\ NoProducts
  /\ NoScanning
  /\ NoStorage
  /\ catalog \in Catalogs
  /\ nameQueryOk \in BOOLEAN
  /\ allQueryOk \in BOOLEAN
  /\ matchLabel \in Labels
  /\ matched = NullProduct
  /\ matcher = "none"
  /\ NoRecognition
  /\ NoResult
  /\ hookUser = DEMO_USER_ID
  /\ CartInit
  /\ NoScan
  /\ NoRequest
  /\ NoNormalize

NextMatch ==
  \/ callGetProductFromDatabase
  \/ callFindBestProductMatch

SpecMatch == InitMatch /\ [][NextMatch]_vars

(***************************************************************************)
(* The recognition orchestrators on their own                              *)
(***************************************************************************)
\* bounds of the vision response
MaxAnnotations == 2

MaxEntities == 1

VisionCatalogs == { CatalogOf(ids) : ids \in SUBSET {"p3", "p5", "p7"} }

BestGuessLabels == {
    <<>>,
    <<"T","o","m","a","t","o">>,
    <<"E","g","g","s">>,
    <<"L","a","p","t","o","p">>
  }

AnnotationLabels == { <<"b","a","n","a","n","a">>, <<"L","a","p","t","o","p">> }

EntityLabels == { <<>>, <<"E","g","g","s">>, <<"T","o","m","a","t","o">> }

\* scores in percent, on either side of the 0.7 threshold
AnnotationScores == {60, 75, 90}

EntityScores == {80}

SeqsUpTo(S, n) == UNION { [1..k -> S] : k \in 0..n }

\* the responses the orchestrators decide on: a 2xx response with a real key
OkResponse ==
  /\ catalog \in VisionCatalogs
  /\ nameQueryOk \in BOOLEAN
  /\ allQueryOk \in BOOLEAN
  /\ bestGuessLabel \in BestGuessLabels
  /\ labelAnnotations \in SeqsUpTo([description : AnnotationLabels, score : AnnotationScores], MaxAnnotations)
  /\ webEntities \in SeqsUpTo([description : EntityLabels, score : EntityScores], MaxEntities)
  /\ httpStatus = "ok"
  /\ MOCK_MODE = FALSE

\* no usable key, or a response that is not 2xx
NoResponse ==
  /\ catalog \in VisionCatalogs
  /\ nameQueryOk = TRUE
  /\ allQueryOk = TRUE
  /\ bestGuessLabel \in BestGuessLabels
  /\ labelAnnotations = <<>>
  /\ webEntities = <<>>
  /\ httpStatus \in {"ok", "badkey", "error"}
  /\ MOCK_MODE \in BOOLEAN
  /\ (MOCK_MODE \/ httpStatus # "ok")

InitVision ==
  /\ NoProducts
  /\ NoScanning
  /\ NoStorage
  /\ (OkResponse \/ NoResponse)
  /\ NoResult
  /\ NoMatcherCall
  /\ hookUser = DEMO_USER_ID
  /\ CartInit
  /\ NoScan
  /\ NoRequest
  /\ NoNormalize

NextVision ==
  \/ recognizeFoodWithVision
  \/ recognizeFoodWithLabels
  \/ recognizeFoodWithMatches

SpecVision == InitVision /\ [][NextVision]_vars

(***************************************************************************)
(* Properties of the cart state manager                                    *)
(***************************************************************************)
\* the lines of a list of items that carry one product
LinesOf(items, productId) == SelectSeq(items, LAMBDA it : it.product_id = productId)

\* the quantity a list of items holds of a product, 0 without a line
HeldOf(items, productId) ==
  IF Len(LinesOf(items, productId)) = 0 THEN 0 ELSE LinesOf(items, productId)[1].quantity

\* exactly one line for the product, with that quantity
OneLine(items, productId, quantity) ==
  /\ Len(LinesOf(items, productId)) = 1
  /\ LinesOf(items, productId)[1].quantity = quantity

\* C1: an add of a positive amount that goes through leaves exactly one
\* line for the product, whose quantity is the quantity before plus the
\* amount added (so two adds leave one line with the starting quantity plus
\* both amounts): in the local cart of the demo user, in the backend cart
\* of an authenticated user, and in that user's local cart whenever it
\* agreed with the backend before the add
C1_AddIncrements ==
  [][/\ \A productId \in CartProducts, quantity \in AddQuantities :
          (quantity >= 1 /\ isDemoUser /\ cart # NullCart /\ addProductToCart(productId, quantity))
            => OneLine(cart'.items, productId, HeldOf(cart.items, productId) + quantity)
     /\ (addToCart /\ tasks[0].quantity >= 1 /\ ~tasks'[0].failed)
          => LET t == tasks[0]
                 before == ItemsOfCart(t.cartId)
                 after == RowsById({ r \in cart_items' : r.cart_id = t.cartId })
             IN /\ OneLine(after, t.product, HeldOf(before, t.product) + t.quantity)
                /\ t.closure # NullCart => Len(LinesOf(cart'.items, t.product)) = 1
                /\ (t.closure # NullCart /\ HeldOf(t.closure.items, t.product) = HeldOf(before, t.product))
                     => OneLine(cart'.items, t.product, HeldOf(before, t.product) + t.quantity)
    ]_vars

\* C1 witness: after adds of 1 and 2, or of 1, 1 and 1, the backend cart and
\* the local cart hold one line of quantity 3
C1_Witness ==
  /\ hookUser = AuthUser
  /\ tasks[0].kind = "add" /\ tasks[0].pc = "done" /\ ~tasks[0].failed
  /\ Len(cart.items) = 1 /\ cart.items[1].quantity = 3
  /\ \E r \in cart_items : r.cart_id = cart.id /\ r.product_id = cart.items[1].product_id /\ r.quantity = 3

\* C2: an update to a quantity of 0 or less that goes through removes the
\* item: it is gone from the demo user's local cart and, for an
\* authenticated user, from the backend rows the next read of the cart returns
C2_NonPositiveRemoves ==
  [][/\ \A cartItemId \in CartItemIds, quantity \in UpdateQuantities :
          (quantity <= 0 /\ isDemoUser /\ cart # NullCart /\ updateItemQuantity(cartItemId, quantity))
            => ~HasItem(cart'.items, cartItemId)
     /\ (updateItemQuantityWrite /\ tasks[0].quantity <= 0 /\ ~tasks'[0].failed)
          => ~\E r \in cart_items' : r.id = tasks[0].item
    ]_vars

\* C3: the backend holds at most one active cart for the user
C3_OneActiveCart == Cardinality(ActiveCartsOf(hookUser)) <= 1

\* C4: no item is stored with a quantity of 0 or less, in the backend table,
\* in the local cart or in the persisted mirror
C4_PositiveQuantities ==
  /\ \A r \in cart_items : r.quantity > 0
  /\ \A i \in 1..Len(cart.items) : cart.items[i].quantity > 0
  /\ \A i \in 1..Len(stored.items) : stored.items[i].quantity > 0

C6_EmptyCheckoutRejected ==
  [][/\ \A paymentMethod \in PaymentMethods :
          (isDemoUser /\ cart # NullCart /\ Len(cart.items) = 0 /\ checkout(paymentMethod))
            => /\ payments' = payments
               /\ (tasks'[0].returned = "false" \/ cart' = cart)
     /\ (/\ checkoutWrite
         /\ ~tasks'[0].failed
         /\ Len(tasks[0].closure.items) = 0
         /\ Len(ItemsOfCart(tasks[0].closure.id)) = 0)
          => /\ payments' = payments
             /\ carts' = carts
             /\ (tasks'[0].returned = "false" \/ cart' = cart)
    ]_vars

(***************************************************************************)
(* Properties of the product matchers                                      *)
(***************************************************************************)
CatalogProducts == Range(catalog)

QueriesOk == nameQueryOk /\ allQueryOk

MatcherReturned == matcher # "none"

\* C8: when the catalog holds a product whose name equals the label up to
\* case, the matcher returns a product with that name
C8_ExactMatchFirst ==
  (/\ MatcherReturned
   /\ QueriesOk
   /\ \E product \in CatalogProducts : toLowerCase(product.name) = toLowerCase(matchLabel))
    => /\ matched # NullProduct
       /\ toLowerCase(matched.name) = toLowerCase(matchLabel)

\* no product name contains the name searched for, or is contained in it
NoNameMatch(searched, nameOf(_)) ==
  \A product \in CatalogProducts :
    /\ ~includes(nameOf(product), searched)
    /\ ~includes(searched, nameOf(product))

\* no product name contains one of the words
NoWordMatch(words, nameOf(_)) ==
  \A product \in CatalogProducts : \A i \in 1..Len(words) : ~includes(nameOf(product), words[i])

LowerName(product) == toLowerCase(product.name)

NormalName(product) == normalizeLabel(product.name)

InCategory(category) == { product \in CatalogProducts : toLowerCase(product.category) = category }

WordsTried ==
  IF matcher = "getProductFromDatabase"
  THEN usefulWords(normalizeLabel(matchLabel))
  ELSE IF includes(normalizeLabel(matchLabel), <<" ">>)
       THEN SelectSeq(split(normalizeLabel(matchLabel)), LAMBDA w : Len(w) > 3 /\ w \notin commonWords)
       ELSE <<>>

C7_OnlyFoodIsMatched == \A i \in 1..Len(matcherCalls) : isFood(matcherCalls[i])

NoFoodLabel ==
  /\ ~isFood(bestGuessLabel)
  /\ \A i \in 1..Len(labelAnnotations) : ~isFood(labelAnnotations[i].description)
  /\ \A i \in 1..Len(webEntities) : ~isFood(webEntities[i].description)

\* C10: a successful vision call whose response has no food label gives
\* exactly the "Not in database" sentinel
C10_NoFoodGivesSentinel ==
  (rpc # "idle" /\ httpStatus = "ok" /\ ~thrown /\ ~isMocked /\ NoFoodLabel)
    => recognizedItems = <<createNotInDatabaseItem>>

\* the orchestrator that ran answered from a 2xx vision response
Answered == rpc # "idle" /\ httpStatus = "ok" /\ ~thrown /\ ~isMocked

\* the product a label resolves to in the orchestrator that ran: vision.ts
\* and the first copy filter with isFood and ask getProductFromDatabase,
\* the second copy asks findBestProductMatch
ResolvedBy(label) ==
  IF Len(label) = 0 THEN NullProduct
  ELSE IF rpc = "matches" THEN findBestProductMatch(label)
  ELSE IF isFood(label) THEN getProductFromDatabase(label)
  ELSE NullProduct

IsProjectionOf(item, product) ==
  /\ item.name = product.name
  /\ item.price = product.price
  /\ item.category = product.category
  /\ item.productId = product.id

\* C11: when the best-guess label resolves to a catalog product, the result
\* is exactly one item, the projection of that product, and the best guess
\* is the only label that was handed to the matcher
C11_BestGuessWins ==
  (Answered /\ ResolvedBy(bestGuessLabel) # NullProduct)
    => /\ Len(recognizedItems) = 1
       /\ IsProjectionOf(recognizedItems[1], ResolvedBy(bestGuessLabel))
       /\ matcherCalls = <<bestGuessLabel>>

\* best guess "Tomato" resolved although a food label annotation and a web
\* entity that are in the catalog came with the response
C11_Witness ==
  /\ Answered
  /\ bestGuessLabel = <<"T","o","m","a","t","o">>
  /\ Len(recognizedItems) = 1
  /\ recognizedItems[1].productId = "p7"
  /\ \E i \in 1..Len(labelAnnotations) :
       /\ labelAnnotations[i].score > MinScore
       /\ ResolvedBy(labelAnnotations[i].description) \notin {NullProduct, ResolvedBy(bestGuessLabel)}
  /\ Len(webEntities) > 0

(***************************************************************************)
(* The hook across sessions: a page mounts useCart for the user that is    *)
(* signed in, AsyncStorage outlives the hook                               *)
(***************************************************************************)
Users == {DEMO_USER_ID, AuthUser}

\* a new instance of useCart(userId): the state of useState and useRef
\* starts over, the blob under CART_STORAGE_KEY stays as it is
mount(userId) ==
  /\ \A s \in Slots : Free(s)
  /\ operations < MaxOps
  /\ operations' = operations + 1
  /\ hookUser' = userId
  /\ cart' = NullCart
  /\ error' = "null"
  /\ initialLoadDone' = FALSE
  /\ tasks' = [s \in Slots |-> IdleTask]
  /\ reloadTimer' = FALSE
  /\ UNCHANGED <<stored, BackendVars, OtherVars>>

InitSession == InitCart

NextSession ==
  \/ \E userId \in Users : mount(userId)
  \/ \E s \in LoadSlots, forceRefresh \in BOOLEAN : loadCart(s, forceRefresh)
  \/ \E s \in Slots : getActiveCart(s)
  \/ \E s \in Slots : createCart(s)
  \/ \E s \in Slots : getCartItems(s)
  \/ \E productId \in CartProducts, quantity \in AddQuantities : addProductToCart(productId, quantity)
  \/ addToCart

SpecSession == InitSession /\ [][NextSession]_vars

(***************************************************************************)
(* Row-level security of the carts table: the policies of                  *)
(* sql/02_carts.sql and of the earlier script without the demo user        *)
(***************************************************************************)
\* auth.uid() = user_id: never true for a request without a session,
\* whose auth.uid() is NULL
OwnsRow(uid, user_id) == uid # "null" /\ uid = user_id

get_demo_user_id == DEMO_USER_ID

\* the expression every policy of the script uses for a row
cartsPolicy(script, uid, user_id) ==
  IF script = "sql/02_carts.sql"
  THEN OwnsRow(uid, user_id) \/ user_id = get_demo_user_id
  ELSE OwnsRow(uid, user_id)

\* USING is evaluated on the existing row, WITH CHECK on the new row
policyAllows(r) ==
  IF r.command \in {"SELECT", "DELETE"} THEN cartsPolicy(r.script, r.uid, r.user_id)
  ELSE IF r.command = "INSERT" THEN cartsPolicy(r.script, r.uid, r.new_user_id)
  ELSE cartsPolicy(r.script, r.uid, r.user_id) /\ cartsPolicy(r.script, r.uid, r.new_user_id)

PolicyScripts == {"sql/02_carts.sql", "part_010"}

\* who asks: no session, or one of three users
Identities == {"null", DEMO_USER_ID, AuthUser, "user-2"}

RowOwners == {DEMO_USER_ID, AuthUser, "user-2"}

Requests ==
  { r \in [script : PolicyScripts, uid : Identities, command : {"SELECT", "INSERT", "UPDATE", "DELETE"},
           user_id : RowOwners, new_user_id : RowOwners] :
      \* a statement that writes no new row keeps the row's owner
      /\ r.command \in {"SELECT", "DELETE"} => r.new_user_id = r.user_id
      /\ r.command = "INSERT" => r.user_id = r.new_user_id }

decide(command) ==
  /\ decision = "none"
  /\ request.command = command
  /\ decision' = IF policyAllows(request) THEN "allowed" ELSE "denied"
  /\ UNCHANGED <<request, ScannerVars, TextVars, ProductVars, ScanningVars, StorageVars, CatalogVars, MatchVars, VisionVars, ResultVars, CartVars>>

selectCart == decide("SELECT")

insertCart == decide("INSERT")

updateCart == decide("UPDATE")

deleteCart == decide("DELETE")

InitPolicy ==
  /\ NoProducts
  /\ NoScanning
  /\ NoStorage
  /\ request \in Requests
  /\ decision = "none"
  /\ hookUser = DEMO_USER_ID
  /\ CartInit
  /\ FullCatalog
  /\ NoMatcherCall
  /\ NoRecognition
  /\ NoResult
  /\ NoScan
  /\ NoNormalize

NextPolicy ==
  \/ selectCart
  \/ insertCart
  \/ updateCart
  \/ deleteCart

SpecPolicy == InitPolicy /\ [][NextPolicy]_vars

(***************************************************************************)
(* normalizeLabel on its own                                               *)
(***************************************************************************)
upperOf == [c \in { LowerChars[i] : i \in 1..Len(LowerChars) } |->
              UpperChars[CHOOSE i \in 1..Len(LowerChars) : LowerChars[i] = c]]

RECURSIVE toUpperCase(_)
toUpperCase(s) ==
  IF Len(s) = 0 THEN <<>>
  ELSE <<IF s[1] \in DOMAIN upperOf THEN upperOf[s[1]] ELSE s[1]>> \o toUpperCase(Tail(s))

capitalize(s) == IF Len(s) = 0 THEN s ELSE toUpperCase(<<s[1]>>) \o Tail(s)

\* labels as the vision response spells them: singular and plural, the
\* excepted plurals, a double "s", an inner space before the "s"
LabelWords == {
    <<>>,
    <<"s">>,
    <<"a","p","p","l","e">>,
    <<"a","p","p","l","e","s">>,
    <<"g","r","a","p","e">>,
    <<"g","r","a","p","e","s">>,
    <<"c","h","i","p","s">>,
    <<"o","a","t","s">>,
    <<"c","o","o","k","i","e","s">>,
    <<"c","r","a","c","k","e","r","s">>,
    <<"g","l","a","s","s">>,
    <<"e","g","g"," ","s">>,
    <<"r","e","d"," ","g","r","a","p","e","s">>
  }

Spellings(word) == { word, capitalize(word), toUpperCase(word) }

Paddings(word) == { word, <<" ">> \o word, word \o <<" ">>, <<" ">> \o word \o <<" ", " ">> }

RawLabels == UNION { UNION { Paddings(spelled) : spelled \in Spellings(word) } : word \in LabelWords }

callNormalizeLabel ==
  /\ ~normalizeCalled
  /\ normalizeCalled' = TRUE
  /\ normalLabel' = normalizeLabel(rawLabel)
  /\ UNCHANGED <<rawLabel, ScannerVars, PolicyVars, ProductVars, ScanningVars, StorageVars, CatalogVars, MatchVars, VisionVars, ResultVars, CartVars>>

InitNormalize ==
  /\ NoProducts
  /\ NoScanning
  /\ NoStorage
  /\ rawLabel \in RawLabels
  /\ normalLabel = <<>>
  /\ normalizeCalled = FALSE
  /\ hookUser = DEMO_USER_ID
  /\ CartInit
  /\ FullCatalog
  /\ NoMatcherCall
  /\ NoRecognition
  /\ NoResult
  /\ NoScan
  /\ NoRequest

NextNormalize == callNormalizeLabel

SpecNormalize == InitNormalize /\ [][NextNormalize]_vars

(***************************************************************************)
(* The scanner page: handleScan and getProductByName                       *)
(* (app/(main)/scanner.tsx)                                                *)
(***************************************************************************)
FruitsCategory == <<"F","r","u","i","t","s">>

\* getProductByName: the rows its three queries may return.  The queries
\* have limit(1) and no order, so any matching row can be the answer; a
\* query that fails is skipped
getProductByName(name, exactOk, partialOk, fruitOk) ==
  LET normalizedName == trim(toLowerCase(name))
      rows == Range(catalog)
      exactMatch == { p \in rows : toLowerCase(p.name) = normalizedName }
      partialMatch == { p \in rows : includes(toLowerCase(p.name), normalizedName) }
      fruitMatch == { p \in rows : p.category = FruitsCategory }
  IN IF exactOk /\ exactMatch # {} THEN exactMatch
     ELSE IF partialOk /\ partialMatch # {} THEN partialMatch
     ELSE IF fruitOk /\ fruitMatch # {} THEN fruitMatch
     ELSE {NullProduct}

\* the product query by id: the row, or null on an error or no row
productById(productId, ok) ==
  IF ok /\ \E p \in Range(catalog) : p.id = productId
  THEN CHOOSE p \in Range(catalog) : p.id = productId
  ELSE NullProduct

showProduct(product) ==
  /\ detectedProduct' = product
  /\ scannedItem' = [name |-> product.name, detected |-> TRUE]
  /\ showDetectedItem' = TRUE

showUndetected(name) ==
  /\ scannedItem' = [name |-> name, detected |-> FALSE]
  /\ UNCHANGED <<detectedProduct, showDetectedItem>>

\* handleScan never resets the flag
finallyKeepsScanning ==
  /\ scanPc' = "idle"
  /\ UNCHANGED <<scanning, cartLoading, presses>>

\* finally { setScanning(false) }, and the setScanning(false) before the
\* early returns: handleScan ends
finallyBlock ==
  /\ scanning' = FALSE
  /\ scanPc' = "idle"
  /\ UNCHANGED <<cartLoading, presses>>

\* handleScan once recognizeFoodWithVision of services/vision.ts has returned
handleScan ==
  /\ rpc = "vision"
  /\ ~thrown
  /\ scanPc = "recognize"
  /\ finallyBlock
  /\ IF Len(recognizedItems) = 0
     THEN showUndetected(<<"N","o"," ","i","t","e","m"," ","r","e","c","o","g","n","i","z","e","d">>)
     ELSE LET bestMatch == recognizedItems[1]
          IN IF bestMatch.productId = ""
             THEN showUndetected(<<"I","t","e","m"," ","n","o","t"," ","i","n"," ","d","a","t","a","b","a","s","e">>)
             ELSE \E ok \in BOOLEAN :
                    LET databaseProduct == productById(bestMatch.productId, ok)
                    IN IF databaseProduct # NullProduct
                       THEN showProduct(databaseProduct)
                       ELSE \E exactOk \in BOOLEAN, partialOk \in BOOLEAN, fruitOk \in BOOLEAN :
                              \E productByName \in getProductByName(bestMatch.name, exactOk, partialOk, fruitOk) :
                                IF productByName # NullProduct
                                THEN showProduct(productByName)
                                ELSE showUndetected(bestMatch.name)
  /\ UNCHANGED <<PolicyVars, TextVars, ProductVars, StorageVars, CatalogVars, MatchVars, VisionVars, ResultVars, CartVars>>

ScannerCatalogs == { CatalogOf(ids) : ids \in SUBSET {"p1", "p5", "p7"} }

\* handleScan has set the flag, taken the picture and called
\* recognizeFoodWithVision
ScanStarted ==
  /\ scanning = TRUE
  /\ cartLoading = FALSE
  /\ scanPc = "recognize"
  /\ presses = 1

InitScanner ==
  /\ NoProducts
  /\ ScanStarted
  /\ NoStorage
  /\ catalog \in ScannerCatalogs
  /\ nameQueryOk \in BOOLEAN
  /\ allQueryOk \in BOOLEAN
  /\ bestGuessLabel \in BestGuessLabels
  /\ labelAnnotations = <<>>
  /\ webEntities = <<>>
  /\ httpStatus \in {"ok", "badkey", "error"}
  /\ MOCK_MODE \in BOOLEAN
  /\ NoResult
  /\ NoMatcherCall
  /\ hookUser = DEMO_USER_ID
  /\ CartInit
  /\ NoScan
  /\ NoRequest
  /\ NoNormalize

NextScanner ==
  \/ recognizeFoodWithVision
  \/ handleScan

SpecScanner == InitScanner /\ [][NextScanner]_vars

(***************************************************************************)
(* The scan button: the scanning flag from the press to the end of         *)
(* handleScan                                                              *)
(***************************************************************************)
MaxPresses == 2

NoUser == ""

ScanRest == <<PolicyVars, TextVars, StorageVars, ProductVars, CatalogVars, MatchVars, VisionVars, BackendVars, HookVars, tasks, reloadTimer, operations>>

\* the guard of handleScan
scanIgnored == scanning \/ cartLoading \/ hookUser = NoUser

\* the guard without its first disjunct
scanIgnoredNotScanning == cartLoading \/ hookUser = NoUser

\* a press of the scan button: handleScan up to its first await
pressScan ==
  /\ presses < MaxPresses
  /\ presses' = presses + 1
  /\ IF scanIgnored
     THEN UNCHANGED <<scanning, scanPc>>
     ELSE /\ scanning' = TRUE
          /\ scanPc' = "capture"
  /\ UNCHANGED <<cartLoading, hookUser, ScannerVars, ResultVars, ScanRest>>

\* takePicture has returned: without a photo handleScan throws and ends,
\* with one it calls recognizeFoodWithVision
takePicture ==
  /\ scanPc = "capture"
  /\ \E photo \in BOOLEAN :
       IF photo
       THEN /\ scanPc' = "recognize"
            /\ rpc' = "idle"
            /\ recognizedItems' = <<>>
            /\ isMocked' = FALSE
            /\ thrown' = FALSE
            /\ matcherCalls' = <<>>
            /\ fetchCalls' = 0
            /\ UNCHANGED <<scanning, cartLoading, presses>>
       ELSE /\ finallyBlock
            /\ UNCHANGED ResultVars
  /\ UNCHANGED <<hookUser, ScannerVars, ScanRest>>

\* the recognition call of handleScan
scanRecognize == scanPc = "recognize" /\ recognizeFoodWithVision

\* recognizeFoodWithVision has rejected: catch, then finally
handleScanCatch ==
  /\ rpc = "vision"
  /\ thrown
  /\ scanPc = "recognize"
  /\ finallyBlock
  /\ UNCHANGED <<hookUser, ScannerVars, ResultVars, ScanRest>>

\* a cart operation of the hook starts or ends
cartLoadingChanges ==
  /\ cartLoading' = ~cartLoading
  /\ UNCHANGED <<scanning, scanPc, presses, hookUser, ScannerVars, ResultVars, ScanRest>>

\* the mount effect has found the signed-in user
getUserId ==
  /\ hookUser = NoUser
  /\ hookUser' = AuthUser
  /\ UNCHANGED <<ScanningVars, ScannerVars, ResultVars, ScanRest>>

InitScanning ==
  /\ NoProducts
  /\ NoScanning
  /\ NoStorage
  /\ catalog \in { CatalogOf({}), CatalogOf({"p1", "p5", "p7"}) }
  /\ nameQueryOk = TRUE
  /\ allQueryOk = TRUE
  /\ bestGuessLabel \in BestGuessLabels
  /\ labelAnnotations = <<>>
  /\ webEntities = <<>>
  /\ httpStatus \in {"ok", "badkey", "error"}
  /\ MOCK_MODE \in BOOLEAN
  /\ NoResult
  /\ NoMatcherCall
  /\ hookUser = NoUser
  /\ CartInit
  /\ NoScan
  /\ NoRequest
  /\ NoNormalize

NextScanning ==
  \/ pressScan
  \/ takePicture
  \/ scanRecognize
  \/ handleScan
  \/ handleScanCatch
  \/ cartLoadingChanges
  \/ getUserId

SpecScanning == InitScanning /\ [][NextScanning]_vars

\* the step of handleScan after the await it is waiting in
scanContinues ==
  \/ takePicture
  \/ scanRecognize
  \/ handleScan
  \/ handleScanCatch

\* every await of handleScan settles
FairScanning == SpecScanning /\ WF_vars(scanContinues)

(***************************************************************************)
(* Cart items whose product join returns no product                        *)
(***************************************************************************)
ProductRest == <<MatchVars, VisionVars, ResultVars, CartVars, ScannerVars, PolicyVars, TextVars, StorageVars, ScanningVars>>

\* getProductById of services/products.ts: the row, or null
getProductById(id, ok) == productById(id, ok)

\* the rows of the cart and the products the join finds for them, with the
\* rows without a product left out
joinedItemsInner(cartId, gap) ==
  LET rows == SelectSeq(ItemsOfCart(cartId), LAMBDA r : r.product_id \notin gap /\ getProductById(r.product_id, TRUE) # NullProduct)
  IN  [i \in 1..Len(rows) |->
        [id |-> rows[i].id, product_id |-> rows[i].product_id, quantity |-> rows[i].quantity,
         product |-> getProductById(rows[i].product_id, TRUE)]]

\* select('*, product:products (*)'): every row of the cart with the
\* product the join finds for it, null for the products in gap and for
\* those the products table does not hold
joinedItems(cartId, gap) ==
  LET rows == ItemsOfCart(cartId)
  IN  [i \in 1..Len(rows) |->
        [id |-> rows[i].id, product_id |-> rows[i].product_id, quantity |-> rows[i].quantity,
         product |-> IF rows[i].product_id \in gap THEN NullProduct
                     ELSE getProductById(rows[i].product_id, TRUE)]]

CartProductIds == { r.product_id : r \in cart_items }

\* the items query of getActiveCart for the user's active cart
loadJoinedCart(ok, gap) ==
  /\ ActiveCartsOf(hookUser) # {}
  /\ IF ok
     THEN /\ loadedItems' = joinedItems(LatestActiveCart(hookUser), gap)
          /\ loadState' = "loaded"
     ELSE /\ loadState' = "failed"
          /\ UNCHANGED loadedItems
  /\ UNCHANGED <<productCache, CatalogVars, ProductRest>>

\* preloadProduct: the product fetched by id, else the cached copy, else null
preloadProduct(productId, ok) ==
  LET fetched == getProductById(productId, ok)
  IN  IF fetched # NullProduct THEN fetched
      ELSE IF \E p \in productCache : p.id = productId
      THEN CHOOSE p \in productCache : p.id = productId
      ELSE NullProduct

\* the cache after preloadProduct has run for the products in ids, the
\* fetch succeeding for those in fetched
cacheAfter(ids, fetched) ==
  LET found == { getProductById(id, id \in fetched) : id \in ids } \ {NullProduct}
  IN  { p \in productCache : \A q \in found : q.id # p.id } \cup found

\* preloadProducts of the layout: preloadProduct for every product of the cart
preloadProducts ==
  /\ loadState \in {"loaded", "fixed"}
  /\ \E fetched \in SUBSET CartProductIds :
       productCache' = cacheAfter({ loadedItems[i].product_id : i \in 1..Len(loadedItems) }, fetched)
  /\ UNCHANGED <<loadedItems, loadState, CatalogVars, ProductRest>>

\* fixMissingProducts: preloadProduct for every item without a product
fixMissingProducts ==
  /\ loadState = "loaded"
  /\ \E fetched \in SUBSET CartProductIds :
       LET missing == { i \in 1..Len(loadedItems) : loadedItems[i].product = NullProduct }
       IN  /\ loadedItems' = [i \in 1..Len(loadedItems) |->
                                IF i \in missing
                                THEN [loadedItems[i] EXCEPT !.product = preloadProduct(loadedItems[i].product_id, loadedItems[i].product_id \in fetched)]
                                ELSE loadedItems[i]]
           /\ productCache' = cacheAfter({ loadedItems[i].product_id : i \in missing }, fetched)
  /\ loadState' = "fixed"
  /\ UNCHANGED <<CatalogVars, ProductRest>>

callLoadJoinedCart == \E ok \in BOOLEAN, gap \in SUBSET CartProductIds : loadJoinedCart(ok, gap)

GapItemRows == <<
    [id |-> 1, cart_id |-> 1, product_id |-> "p1", quantity |-> 1],
    [id |-> 2, cart_id |-> 1, product_id |-> "p3", quantity |-> 2],
    [id |-> 3, cart_id |-> 1, product_id |-> "p5", quantity |-> 1]
  >>

\* one active cart of the user with up to three items; the products table
\* holds all products, or all but "p3"
InitProducts ==
  /\ NoProducts
  /\ NoScanning
  /\ NoStorage
  /\ hookUser = AuthUser
  /\ carts = <<newCartRow(AuthUser)>>
  /\ \E n \in 0..Len(GapItemRows) : cart_items = { GapItemRows[i] : i \in 1..n }
  /\ payments = {}
  /\ nextItemId = Cardinality(cart_items) + 1
  /\ cart = NullCart
  /\ stored = NullCart
  /\ error = "null"
  /\ initialLoadDone = FALSE
  /\ tasks = [s \in Slots |-> IdleTask]
  /\ reloadTimer = FALSE
  /\ operations = 0
  /\ catalog \in { ProductsByName, SelectSeq(ProductsByName, LAMBDA p : p.id # "p3") }
  /\ nameQueryOk = TRUE
  /\ allQueryOk = TRUE
  /\ NoMatcherCall
  /\ NoRecognition
  /\ NoResult
  /\ NoScan
  /\ NoRequest
  /\ NoNormalize

NextProducts ==
  \/ callLoadJoinedCart
  \/ preloadProducts
  \/ fixMissingProducts

SpecProducts == InitProducts /\ [][NextProducts]_vars

(***************************************************************************)
(* addToCart called for the same user from several devices: the service    *)
(* calls alone, one step per backend call                                  *)
(***************************************************************************)
\* an increment of what the row holds at the time of the write
updatedQuantityNow(t) ==
  LET held == { r \in cart_items : r.id = t.existing.id }
  IN (IF held = {} THEN t.existing.quantity ELSE (CHOOSE r \in held : TRUE).quantity) + t.quantity

\* the quantity addToCart writes on the item it found when it read the cart
updatedQuantity(t) == t.existing.quantity + t.quantity

\* a device calls addToCart(userId, product, quantity)
deviceAddToCart(s, productId, quantity) ==
  /\ ~isDemoUser
  /\ Free(s)
  /\ operations < MaxOps
  /\ operations' = operations + 1
  /\ QuantityInBound(productId, quantity)
  /\ tasks' = [tasks EXCEPT ![s] = [IdleTask EXCEPT !.kind = "device", !.pc = "gac_cart",
                                                    !.product = productId, !.quantity = quantity]]
  /\ UNCHANGED <<BackendVars, HookVars, hookUser, reloadTimer, OtherVars>>

\* the write of that call: update the item found in the cart read before,
\* else insert a row; the call returns the item, returns null when the
\* update failed, and rejects when the insert failed
deviceWrite(s) ==
  /\ tasks[s].kind = "device"
  /\ tasks[s].pc = "atc_write"
  /\ LET t == tasks[s]
         quantity == updatedQuantity(t)
     IN IF t.existing # NullItem
        THEN \E ok \in (IF updateCallsBackend(t.existing.id, quantity) THEN BOOLEAN ELSE {TRUE}) :
               LET updated == updateCartItemQuantity(t.existing.id, quantity, ok)
               IN /\ cart_items' = updated.rows
                  /\ nextItemId' = nextItemId
                  /\ tasks' = [tasks EXCEPT ![s] = [t EXCEPT !.pc = "done", !.failed = ~ok,
                                  !.returned = IF updated.item # NullItem THEN "item" ELSE "null"]]
        ELSE \E ok \in BOOLEAN :
               IF ok /\ insertAllowed(t.cartId, t.product, t.quantity)
               THEN LET row == [id |-> nextItemId, cart_id |-> t.cartId, product_id |-> t.product, quantity |-> t.quantity]
                    IN /\ cart_items' = cart_items \cup {row}
                       /\ nextItemId' = nextItemId + 1
                       /\ tasks' = [tasks EXCEPT ![s] = [t EXCEPT !.pc = "done", !.returned = "item"]]
               ELSE /\ UNCHANGED <<cart_items, nextItemId>>
                    /\ tasks' = [tasks EXCEPT ![s] = [t EXCEPT !.pc = "done", !.failed = TRUE]]
  /\ UNCHANGED <<carts, payments, HookVars, hookUser, operations, reloadTimer, OtherVars>>

InitDevices ==
  /\ NoProducts
  /\ NoScanning
  /\ NoStorage
  /\ hookUser = AuthUser
  /\ CartInit
  /\ FullCatalog
  /\ NoMatcherCall
  /\ NoRecognition
  /\ NoResult
  /\ NoScan
  /\ NoRequest
  /\ NoNormalize

NextDevices ==
  \/ \E s \in Slots, productId \in CartProducts, quantity \in AddQuantities : deviceAddToCart(s, productId, quantity)
  \/ \E s \in Slots : getActiveCart(s)
  \/ \E s \in Slots : createCart(s)
  \/ \E s \in Slots : getCartItems(s)
  \/ \E s \in Slots : deviceWrite(s)

SpecDevices == InitDevices /\ [][NextDevices]_vars

(***************************************************************************)
(* getActiveCart called on its own, for the demo user and for a user       *)
(***************************************************************************)
\* a call of getActiveCart(userId) from outside the hook
callGetActiveCart(s) ==
  /\ Free(s)
  /\ operations < MaxOps
  /\ operations' = operations + 1
  /\ tasks' = [tasks EXCEPT ![s] = [IdleTask EXCEPT !.kind = "get", !.pc = "gac_cart"]]
  /\ UNCHANGED <<BackendVars, HookVars, hookUser, reloadTimer, OtherVars>>

\* the rows the tables may hold before the calls: no cart, or one cart of
\* the user, active or completed, with up to two items
ServiceItemRows == <<
    [id |-> 1, cart_id |-> 1, product_id |-> "p1", quantity |-> 1],
    [id |-> 2, cart_id |-> 1, product_id |-> "p3", quantity |-> 2]
  >>

InitService ==
  /\ NoProducts
  /\ NoScanning
  /\ NoStorage
  /\ hookUser \in {DEMO_USER_ID, AuthUser}
  /\ \/ /\ carts = <<>>
        /\ cart_items = {}
     \/ /\ carts \in { <<newCartRow(hookUser)>>, <<[newCartRow(hookUser) EXCEPT !.status = "completed", !.checkout_at = TRUE]>> }
        /\ \E n \in 0..Len(ServiceItemRows) : cart_items = { ServiceItemRows[i] : i \in 1..n }
  /\ payments = {}
  /\ nextItemId = Cardinality(cart_items) + 1
  /\ cart = NullCart
  /\ stored = NullCart
  /\ error = "null"
  /\ initialLoadDone = FALSE
  /\ tasks = [s \in Slots |-> IdleTask]
  /\ reloadTimer = FALSE
  /\ operations = 0
  /\ FullCatalog
  /\ NoMatcherCall
  /\ NoRecognition
  /\ NoResult
  /\ NoScan
  /\ NoRequest
  /\ NoNormalize

NextService ==
  \/ \E s \in Slots : callGetActiveCart(s)
  \/ \E s \in Slots : getActiveCart(s)
  \/ \E s \in Slots : createCart(s)
  \/ \E s \in Slots : getCartItems(s)

SpecService == InitService /\ [][NextService]_vars

(***************************************************************************)
(* The session-token storage adapter (CustomStorageAdapter)                *)
(***************************************************************************)
\* what getItem returns when no storage call throws
getItemValue(key) ==
  LET secureValue == secureStore[key]
  IN  IF Truthy(secureValue)
      THEN IF secureValue.value = STORED_IN_ASYNC_STORAGE
           THEN asyncStorage[asyncStorageKey(key)]
           ELSE secureValue
      ELSE asyncStorage[asyncStorageKey(key)]

\* getItem: a storage call that throws makes it return null
getItem(key) ==
  /\ \E ok \in BOOLEAN :
       got' = [called |-> TRUE, key |-> key, threw |-> ~ok,
               result |-> IF ok THEN getItemValue(key) ELSE Absent]
  /\ UNCHANGED <<secureStore, asyncStorage, written>>

\* setItem: two storage calls; the first one that throws ends the call, the
\* error is logged and the call resolves
setItem(key, value) ==
  /\ \E failAt \in 0..2 :
       /\ IF Len(value) > SECURE_STORE_MAX_SIZE
          THEN /\ asyncStorage' = IF failAt = 1 THEN asyncStorage
                                  ELSE [asyncStorage EXCEPT ![asyncStorageKey(key)] = Held(value)]
               /\ secureStore' = IF failAt # 0 THEN secureStore
                                 ELSE [secureStore EXCEPT ![key] = Held(STORED_IN_ASYNC_STORAGE)]
          ELSE /\ secureStore' = IF failAt = 1 THEN secureStore
                                 ELSE [secureStore EXCEPT ![key] = Held(value)]
               /\ asyncStorage' = IF failAt # 0 THEN asyncStorage
                                  ELSE [asyncStorage EXCEPT ![asyncStorageKey(key)] = Absent]
       /\ written' = [written EXCEPT ![key] = [op |-> "setItem", value |-> value, threw |-> failAt # 0]]
  /\ got' = NoGet

\* the adapter's removeItem: deletes from both stores
removeStoredItem(key) ==
  /\ \E failAt \in 0..2 :
       /\ secureStore' = IF failAt = 1 THEN secureStore ELSE [secureStore EXCEPT ![key] = Absent]
       /\ asyncStorage' = IF failAt # 0 THEN asyncStorage
                          ELSE [asyncStorage EXCEPT ![asyncStorageKey(key)] = Absent]
       /\ written' = [written EXCEPT ![key] = [op |-> "removeItem", value |-> <<>>, threw |-> failAt # 0]]
  /\ got' = NoGet

StorageRest == <<CatalogVars, MatchVars, VisionVars, ResultVars, CartVars, ScannerVars, PolicyVars, TextVars, ScanningVars, ProductVars>>

callGetItem == \E key \in StorageKeys : getItem(key) /\ UNCHANGED StorageRest

callSetItem == \E key \in StorageKeys, value \in StorageValues : setItem(key, value) /\ UNCHANGED StorageRest

callRemoveItem == \E key \in StorageKeys : removeStoredItem(key) /\ UNCHANGED StorageRest

InitStorage ==
  /\ NoProducts
  /\ NoScanning
  /\ NoStorage
  /\ hookUser = DEMO_USER_ID
  /\ CartInit
  /\ FullCatalog
  /\ NoMatcherCall
  /\ NoRecognition
  /\ NoResult
  /\ NoScan
  /\ NoRequest
  /\ NoNormalize

NextStorage ==
  \/ callGetItem
  \/ callSetItem
  \/ callRemoveItem

SpecStorage == InitStorage /\ [][NextStorage]_vars

(***************************************************************************)
(* Properties of the local mirror                                          *)
(***************************************************************************)
\* the load in slot s gets its answer from the backend in this step and
\* the answer is a cart: getActiveCart returned from its cart_items query
\* or from createCart
LoadSucceeds(s) ==
  /\ ~isDemoUser
  /\ tasks[s].kind = "load"
  /\ tasks[s].pc \in {"gac_items", "gac_create"}
  /\ tasks'[s] = IdleTask
  /\ error' = "null"

\* no two rows for the same product in the same cart
UniquePairs(rows) ==
  \A r1 \in rows, r2 \in rows :
    (r1.cart_id = r2.cart_id /\ r1.product_id = r2.product_id) => r1 = r2

\* the cart is what the backend holds for it: the row of the user's cart
\* and exactly the cart_items rows of that cart
IsServerCart(c, cartRows, rows) ==
  /\ c # NullCart
  /\ c.id \in 1..Len(cartRows)
  /\ cartRows[c.id].user_id = c.user_id
  /\ c.items = RowsById({ r \in rows : r.cart_id = c.id })

\* C12: a backend load of an authenticated user that succeeds replaces the
\* hook's cart and the stored mirror by the server's cart and items, so
\* no local-only item and no locally changed quantity survives it
C12_LoadSupersedesLocal ==
  [][\A s \in LoadSlots :
       LoadSucceeds(s)
         => /\ IsServerCart(cart', carts', cart_items')
            /\ cart'.user_id = hookUser
            /\ stored' = cart'
            /\ \A i \in 1..Len(cart'.items) : cart'.items[i] \in cart_items'
    ]_vars

\* an add that failed on the backend left a local-only item in the cart,
\* and a later load put the server's empty cart in its place
C12_Witness ==
  /\ ~isDemoUser
  /\ tasks[0].kind = "add" /\ tasks[0].pc = "done"
  /\ tasks[0].failed /\ tasks[0].returned = "item"
  /\ IsServerCart(cart, carts, cart_items)
  /\ cart.items = <<>>
  /\ stored = cart
  /\ error = "null"

\* C13: the stored cart is one blob per user: a cart that loadCart or
\* loadPersistedCart puts into the cart state belongs to the hook's user
C13_BlobPerUser ==
  [][(cart' # cart /\ cart' # NullCart) => cart'.user_id = hookUser']_vars

(***************************************************************************)
(* Properties of the row-level security policies                           *)
(***************************************************************************)
\* C14: a statement on a cart is allowed only to the user the cart
\* belongs to, whoever asks and whichever of the four commands it is
C14_OnlyOwnCarts ==
  decision = "allowed"
    => /\ request.uid = request.user_id
       /\ request.uid = request.new_user_id

(***************************************************************************)
(* Properties of normalizeLabel                                            *)
(***************************************************************************)
Apples == <<"A","p","p","l","e","s">>

Grapes == <<"G","r","a","p","e","s">>

\* C15: normalizeLabel returns the lower-cased, trimmed label without its
\* last character when that is an "s" and the word is not one of grapes,
\* chips, oats, cookies, crackers, and the lower-cased, trimmed label
\* otherwise; "Apples" gives "apple" and "Grapes" gives "grapes".  The
\* result is fixed by the argument alone.
C15_NormalizeLabel ==
  normalizeCalled =>
    LET lowered == trim(toLowerCase(rawLabel))
        excepted == lowered \in { <<"g","r","a","p","e","s">>, <<"c","h","i","p","s">>, <<"o","a","t","s">>,
                                  <<"c","o","o","k","i","e","s">>, <<"c","r","a","c","k","e","r","s">> }
    IN /\ (endsWith(lowered, "s") /\ ~excepted) => normalLabel \o <<"s">> = lowered
       /\ (~endsWith(lowered, "s") \/ excepted) => normalLabel = lowered
       /\ rawLabel = Apples => normalLabel = <<"a","p","p","l","e">>
       /\ rawLabel = Grapes => normalLabel = <<"g","r","a","p","e","s">>
       /\ \A i \in 1..Len(normalLabel) : normalLabel[i] \notin { UpperChars[j] : j \in 1..Len(UpperChars) }

\* "Grapes" went through normalizeLabel and kept its "s"
C15_Witness ==
  /\ normalizeCalled
  /\ rawLabel = Grapes
  /\ normalLabel = <<"g","r","a","p","e","s">>

(***************************************************************************)
(* Properties of the scanner page                                          *)
(***************************************************************************)
\* C16: after handleScan got the "Not in database" sentinel, no product is
\* detected: detectedProduct stays null, the add-to-cart panel stays
\* closed and scannedItem.detected is false
C16_SentinelIsNotAProduct ==
  (scannedItem # NullScan /\ recognizedItems = <<createNotInDatabaseItem>>)
    => /\ detectedProduct = NullProduct
       /\ ~showDetectedItem
       /\ ~scannedItem.detected
\* the candidates of the orchestrator that ran, in the order best guess,
\* label annotations by descending score, web entities.  The second copy
\* admits only food labels above its score threshold
candidatesInOrder ==
  IF rpc = "matches"
  THEN LET admitted(x) == x.score > MinScore /\ Len(x.description) > 0 /\ isFood(x.description)
       IN (IF Len(bestGuessLabel) > 0 THEN <<bestGuessLabel>> ELSE <<>>)
            \o descriptions(sortByScore(slice(SelectSeq(labelAnnotations, admitted), TopMatchLabels)))
            \o descriptions(slice(SelectSeq(webEntities, admitted), TopEntities))
  ELSE visionCandidates

\* the calls were made in the order of the list: call i is the candidate at
\* position f[i], and f never goes back
InOrder(calls, order) ==
  \E f \in [1..Len(calls) -> 1..Len(order)] :
    /\ \A i \in 1..Len(calls) : order[f[i]] = calls[i]
    /\ \A i, j \in 1..Len(calls) : i < j => f[i] <= f[j]

\* the matcher of the orchestrator that ran
matcherOf(label) == IF rpc = "matches" THEN findBestProductMatch(label) ELSE getProductFromDatabase(label)

PriorityOrderKept ==
  LET order == candidatesInOrder
      resolving == { i \in 1..Len(order) : ResolvedBy(order[i]) # NullProduct }
      first == CHOOSE i \in resolving : \A j \in resolving : i <= j
  IN /\ InOrder(matcherCalls, order)
     /\ \A i \in 1..(Len(matcherCalls) - 1) : matcherOf(matcherCalls[i]) = NullProduct
     /\ Len(recognizedItems) = 1
     /\ IF resolving = {}
        THEN recognizedItems[1] = createNotInDatabaseItem
        ELSE IsProjectionOf(recognizedItems[1], ResolvedBy(order[first]))

\* C17: the candidates are tried in the order best guess, label annotations
\* by descending score, web entities; the result is the product of the
\* first candidate in that order that resolves, no later candidate reaches
\* the matcher before an earlier one, and none after a match
C17_PriorityOrder == Answered => PriorityOrderKept

(***************************************************************************)
(* Properties of addToCart under concurrent calls                          *)
(***************************************************************************)
\* two calls that have returned an item after updating the same row, which
\* both had read with the same quantity
BothUpdated(s1, s2) ==
  /\ s1 # s2
  /\ \A s \in {s1, s2} :
       /\ tasks[s].kind = "device" /\ tasks[s].pc = "done"
       /\ ~tasks[s].failed /\ tasks[s].returned = "item"
       /\ tasks[s].quantity > 0
       /\ tasks[s].existing # NullItem
  /\ tasks[s1].existing = tasks[s2].existing

\* C18: addToCart reads the cart and then writes, without a transaction:
\* of two calls that read the same quantity q of a product and add a and b,
\* the later write replaces the earlier one, and the row ends with q + a or
\* q + b, less than q + a + b
C18_LostUpdate ==
  \A s1 \in Slots, s2 \in Slots :
    BothUpdated(s1, s2)
      => \E r \in cart_items :
           /\ r.id = tasks[s1].existing.id
           /\ r.quantity \in { tasks[s1].existing.quantity + tasks[s1].quantity,
                               tasks[s1].existing.quantity + tasks[s2].quantity }
           /\ r.quantity < tasks[s1].existing.quantity + tasks[s1].quantity + tasks[s2].quantity

\* both calls read quantity 1 and added 1: the row holds 2, not 3
C18_Witness ==
  \E s1 \in Slots, s2 \in Slots :
    /\ BothUpdated(s1, s2)
    /\ tasks[s1].existing.quantity = 1
    /\ tasks[s1].quantity = 1 /\ tasks[s2].quantity = 1
    /\ \E r \in cart_items : r.id = tasks[s1].existing.id /\ r.quantity = 2

\* the call in slot s inserts in this step, and the cart already holds a
\* row for its product
LosesInsertRace(s) ==
  /\ tasks[s].kind = "device"
  /\ tasks[s].pc = "atc_write"
  /\ tasks[s].existing = NullItem
  /\ tasks'[s].pc = "done"
  /\ \E r \in cart_items : r.cart_id = tasks[s].cartId /\ r.product_id = tasks[s].product

\* C19: cart_items never holds two rows with the same (cart_id,
\* product_id), however the calls interleave; the call whose insert comes
\* second fails and leaves the table as it is
C19_UniqueCartProduct ==
  [][/\ UniquePairs(cart_items')
     /\ \A s \in Slots : LosesInsertRace(s) => (tasks'[s].failed /\ cart_items' = cart_items)
    ]_vars

\* two calls found the product missing from the same cart: one inserted,
\* the other failed, and the cart holds one row for the product
C19_Witness ==
  \E s1 \in Slots, s2 \in Slots :
    /\ \A s \in {s1, s2} : tasks[s].kind = "device" /\ tasks[s].pc = "done" /\ tasks[s].existing = NullItem
    /\ tasks[s1].cartId = tasks[s2].cartId
    /\ tasks[s1].product = tasks[s2].product
    /\ tasks[s1].quantity > 0 /\ tasks[s2].quantity > 0
    /\ ~tasks[s1].failed /\ tasks[s1].returned = "item"
    /\ tasks[s2].failed
    /\ Cardinality({ r \in cart_items : r.cart_id = tasks[s1].cartId /\ r.product_id = tasks[s1].product }) = 1

(***************************************************************************)
(* Properties of addProductToCart when the backend write fails             *)
(***************************************************************************)
\* this step ends an addProductToCart of an authenticated user whose
\* backend write (the insert of the cart, the insert or the update of the
\* item) failed
WriteFailed ==
  /\ ~isDemoUser
  /\ tasks[0].kind = "add"
  /\ tasks[0].quantity > 0
  /\ tasks[0].pc \in {"gac_create", "atc_write"}
  /\ tasks'[0].pc = "done"
  /\ tasks'[0].failed

\* C20: when the backend write of addProductToCart fails for an
\* authenticated user, the product is added, or its quantity incremented,
\* in the local cart and in the persisted mirror, a non-null item is
\* returned, and the error state stays as it was
C20_WriteFailureFallsBack ==
  [][WriteFailed =>
       /\ tasks'[0].returned = "item"
       /\ error' = error
       /\ cart' # NullCart
       /\ stored' = cart'
       /\ HeldOf(cart'.items, tasks[0].product)
            = (IF tasks[0].closure = NullCart THEN 0 ELSE HeldOf(tasks[0].closure.items, tasks[0].product))
              + tasks[0].quantity
    ]_vars

(***************************************************************************)
(* Properties of the orchestrators when the vision call fails              *)
(***************************************************************************)
\* the call returned the fixed mock items, flagged isMocked
ReturnedMock == ~thrown /\ isMocked /\ recognizedItems = MOCK_FOOD_ITEMS

\* the call rejected and produced no result
Rejected == thrown /\ ~isMocked /\ recognizedItems = <<>>

\* a non-2xx answer gives the mock items only for the invalid-key answer,
\* and rejects otherwise
FailureHandled ==
  httpStatus # "ok" => ((ReturnedMock /\ httpStatus = "badkey") \/ Rejected)

\* C22 as stated, for every recognizeFoodWithVision: a failed call gives
\* the mock items (invalid key only) or rejects, and with a key that does
\* not start with "AIza" the mock items are returned without a request
C22_FailedCallAllVariants ==
  rpc # "idle" =>
    /\ MOCK_MODE => (ReturnedMock /\ fetchCalls = 0)
    /\ ~MOCK_MODE => FailureHandled

\* C22, amended: mock mode exists in services/vision.ts only, where it
\* returns the mock items without a request; outside mock mode a failed
\* call gives the mock items for the invalid-key answer and rejects
\* otherwise. The two copies in services/cart.ts always send the request,
\* never return mock items, and reject on every failed call
C22_FailedCall ==
  rpc # "idle" =>
    /\ rpc = "vision" /\ MOCK_MODE => (ReturnedMock /\ fetchCalls = 0)
    /\ rpc = "vision" /\ ~MOCK_MODE => (fetchCalls = 1 /\ FailureHandled)
    /\ rpc # "vision" => (fetchCalls = 1 /\ ~isMocked /\ (httpStatus # "ok" => Rejected))

\* vision.ts answered a refused key with the mock items
C22_Witness ==
  /\ rpc = "vision" /\ ~MOCK_MODE /\ httpStatus = "badkey"
  /\ ReturnedMock /\ fetchCalls = 1

(***************************************************************************)
(* Properties of the containment and per-word steps of the matchers        *)
(***************************************************************************)
SearchTerm == normalizeLabel(matchLabel)

\* the product's name lies within the search term
ContainedInLabel(product) == includes(SearchTerm, normalizeLabel(product.name))

\* the products findBestProductMatch counts as containment matches
ContainmentMatches ==
  { product \in CatalogProducts :
      ContainedInLabel(product) \/ includes(normalizeLabel(product.name), SearchTerm) }

\* distance between the length of the product's name and of the search term
LengthDistance(product) == Abs(Len(product.name) - Len(SearchTerm))

\* C23: when several products match the label by containment,
\* findBestProductMatch returns one of them whose name is contained within
\* the label if there is one, and whose name length is closest to the
\* label's length among the matches of its kind
C23_ContainmentPreference ==
  (/\ matcher = "findBestProductMatch"
   /\ allQueryOk
   /\ Cardinality(ContainmentMatches) > 1)
    => /\ matched \in ContainmentMatches
       /\ (\E product \in ContainmentMatches : ContainedInLabel(product)) => ContainedInLabel(matched)
       /\ \A product \in ContainmentMatches :
            (ContainedInLabel(product) <=> ContainedInLabel(matched))
              => LengthDistance(matched) <= LengthDistance(product)

\* "Orange" lies within the label and wins over "Natural Orange Juice",
\* which contains the label and comes first in the catalog
C23_Witness ==
  /\ matcher = "findBestProductMatch"
  /\ allQueryOk
  /\ matched # NullProduct
  /\ ContainedInLabel(matched)
  /\ \E product \in ContainmentMatches :
       /\ ~ContainedInLabel(product)
       /\ \E i, j \in 1..Len(catalog) : i < j /\ catalog[i] = product /\ catalog[j] = matched

\* the words the per-word step is to drop: length <= 3, or in the list
\* "food", "fresh", "ripe", "juicy", "sweet", "natural", "product", "item"
ListedStopwords == { <<"f","o","o","d">>, <<"f","r","e","s","h">>, <<"r","i","p","e">>, <<"j","u","i","c","y">>, <<"s","w","e","e","t">>, <<"n","a","t","u","r","a","l">>, <<"p","r","o","d","u","c","t">>, <<"i","t","e","m">> }

DroppedWord(word) == Len(word) <= 3 \/ word \in ListedStopwords

RemainingWords == SelectSeq(split(SearchTerm), LAMBDA word : ~DroppedWord(word))

\* the product name as the matcher that ran compares it
NameIn(product) ==
  IF matcher = "findBestProductMatch" THEN normalizeLabel(product.name) ELSE toLowerCase(product.name)

ProductsWithWord(word) == SelectSeq(catalog, LAMBDA product : includes(NameIn(product), word))

\* the first remaining word that some product name contains, 0 without one
FirstSelectingWord ==
  IF \E i \in 1..Len(RemainingWords) : Len(ProductsWithWord(RemainingWords[i])) > 0
  THEN CHOOSE i \in 1..Len(RemainingWords) :
         /\ Len(ProductsWithWord(RemainingWords[i])) > 0
         /\ \A j \in 1..(i - 1) : Len(ProductsWithWord(RemainingWords[j])) = 0
  ELSE 0

\* the matcher came to its per-word step: the product query succeeded and
\* no product name equals, contains or lies within the label
PerWordStepReached ==
  /\ MatcherReturned
  /\ allQueryOk
  /\ NoNameMatch(SearchTerm, NameIn)

\* C24: in the per-word step the first product whose name contains a
\* remaining word is returned; a word of length <= 3 or of the stopword
\* list never selects a product, so without a remaining word that matches
\* the result is null or comes from the category fallback
C24_PerWordStep ==
  PerWordStepReached =>
    IF FirstSelectingWord # 0
    THEN matched = ProductsWithWord(RemainingWords[FirstSelectingWord])[1]
    ELSE \/ matched = NullProduct
         \/ includes(SearchTerm, fruitWord)
         \/ includes(SearchTerm, vegetableWord)

(***************************************************************************)
(* Properties of removeItem and clearCart when a delete fails              *)
(***************************************************************************)
\* this step ends a removeItem of an authenticated user whose backend
\* delete failed
DeleteFailed ==
  /\ ~isDemoUser
  /\ tasks[0].kind = "remove"
  /\ tasks[0].pc = "rci_write"
  /\ tasks'[0].pc = "done"
  /\ tasks'[0].failed

\* C26: when the backend delete fails for an authenticated user, removeItem
\* returns false and leaves the local cart, the persisted mirror and the
\* backend rows as they were: removeCartItem turns the error into false, and
\* the local removal of the catch branch does not run
C26_FailedRemoveChangesNothing ==
  [][DeleteFailed =>
       /\ tasks'[0].returned = "false"
       /\ cart' = cart
       /\ stored' = stored
       /\ error' = error
       /\ cart_items' = cart_items
    ]_vars

\* a removeItem of an item the local cart still shows returned false
C26_Witness ==
  /\ ~isDemoUser
  /\ tasks[0].kind = "remove" /\ tasks[0].pc = "done"
  /\ tasks[0].failed /\ tasks[0].returned = "false"
  /\ cart # NullCart /\ Len(cart.items) > 0
  /\ stored = cart

\* this step ends a clearCart of an authenticated user that returns true
ClearReturnsTrue ==
  /\ ~isDemoUser
  /\ tasks[0].kind = "clear"
  /\ tasks[0].pc # "done"
  /\ tasks'[0].pc = "done"
  /\ tasks'[0].returned = "true"

\* C27: when clearCart returns true for an authenticated user, no removal
\* has failed, the user's active carts hold no rows in the backend, and the
\* local cart, reloaded, has no items
C27_ClearedWhenTrue ==
  [][ClearReturnsTrue =>
       /\ ~tasks'[0].failed
       /\ \A r \in cart_items' : r.cart_id \notin ActiveCartsOf(hookUser)'
       /\ cart' # NullCart
       /\ cart'.items = <<>>
    ]_vars

(***************************************************************************)
(* Properties of the local cart after a checkout                           *)
(***************************************************************************)
\* this step ends a checkout of an authenticated user that returns true
CheckoutSucceeds ==
  /\ ~isDemoUser
  /\ tasks[0].kind = "checkout"
  /\ tasks[0].pc = "co_write"
  /\ tasks'[0].pc = "done"
  /\ tasks'[0].returned = "true"

\* the cart shows a cart_items row of a cart the backend has checked out
ShowsCheckedOutItems(c) ==
  /\ c # NullCart
  /\ \E i \in 1..Len(c.items) : \E r \in cart_items :
       /\ r.id = c.items[i].id
       /\ r.cart_id \in 1..Len(carts)
       /\ carts[r.cart_id].status = "completed"

\* C28 (its safety part): a successful checkout of an authenticated user
\* clears the local cart and removes the persisted mirror, and from then on
\* neither the local cart nor the mirror shows the items of a checked-out
\* cart
C28_CheckedOutItemsGone ==
  /\ [][CheckoutSucceeds => (cart' = NullCart /\ stored' = NullCart)]_vars
  /\ [](~isDemoUser => (~ShowsCheckedOutItems(cart) /\ ~ShowsCheckedOutItems(stored)))

(***************************************************************************)
(* Properties of getActiveCart for the demo user                           *)
(***************************************************************************)
\* a direct call of getActiveCart has ended in slot s
GetEnded(s) == tasks[s].kind = "get" /\ tasks[s].pc = "done"

IsDemoMockCart(c) ==
  /\ c.id = DemoCartId
  /\ c.user_id = DEMO_USER_ID
  /\ c.status = "active"
  /\ c.items = <<>>

\* C30: for the demo user getActiveCart never rejects; when a backend call
\* failed or no active cart was found it returns the cart 'demo-cart-id',
\* active and without items; and it never inserts a cart row
C30_DemoCartNeverRejects ==
  /\ [](isDemoUser =>
          \A s \in Slots :
            GetEnded(s) =>
              /\ tasks[s].returned = "cart"
              /\ (tasks[s].failed \/ ActiveCartsOf(DEMO_USER_ID) = {}) => IsDemoMockCart(tasks[s].result))
  /\ [][isDemoUser => carts' = carts]_vars

\* the items query failed for the demo user's active cart with items, and
\* the call returned the mock cart
C30_Witness ==
  /\ isDemoUser
  /\ ActiveCartsOf(DEMO_USER_ID) # {}
  /\ cart_items # {}
  /\ \E s \in Slots :
       /\ GetEnded(s)
       /\ tasks[s].failed
       /\ tasks[s].returned = "cart"
       /\ IsDemoMockCart(tasks[s].result)

(***************************************************************************)
(* Properties of the session-token storage adapter                         *)
(***************************************************************************)
\* getItem(key) has returned and the last write of the key was a setItem,
\* all storage calls of both having succeeded
ReadAfterSet(key) ==
  /\ got.called /\ got.key = key /\ ~got.threw
  /\ written[key].op = "setItem" /\ ~written[key].threw

ReadAfterRemove(key) ==
  /\ got.called /\ got.key = key /\ ~got.threw
  /\ written[key].op = "removeItem" /\ ~written[key].threw

\* C25: getItem(k) after a completed setItem(k, v) returns v, for every
\* string v of any length, and getItem(k) after removeItem(k) returns null
C25_RoundTrip ==
  \A key \in StorageKeys :
    /\ ReadAfterSet(key) => got.result = Held(written[key].value)
    /\ ReadAfterRemove(key) => got.result = Absent

(***************************************************************************)
(* Properties of the scanning flag                                         *)
(***************************************************************************)
\* handleScan starts a capture
CaptureStarts == scanPc # "capture" /\ scanPc' = "capture"

\* handleScan starts a recognition call
RecognitionStarts == scanPc # "recognize" /\ scanPc' = "recognize"

\* a press of the button that the guard of handleScan has to ignore
IgnoredPress == presses' # presses /\ (scanning \/ cartLoading \/ hookUser = NoUser)

\* C29: every handleScan that starts a scan eventually resets the scanning
\* flag, whatever capture, recognition and lookup do; a handleScan called
\* while scanning is true, while the cart is loading or without a user
\* starts no capture and no recognition call
C29_ScanningFlag ==
  /\ scanning ~> ~scanning
  /\ [][CaptureStarts => (~scanning /\ ~cartLoading /\ hookUser # NoUser /\ scanning')]_vars
  /\ [][RecognitionStarts => (scanning /\ scanPc = "capture")]_vars
  /\ [][IgnoredPress => UNCHANGED <<scanning, scanPc, ResultVars>>]_vars

\* a second press, after a scan that ended with the flag reset, has started
\* the next capture
C29_Witness ==
  /\ presses = MaxPresses
  /\ scanning
  /\ scanPc = "capture"
  /\ rpc = "vision"

(***************************************************************************)
(* Properties of cart items without a product                              *)
(***************************************************************************)
\* the loaded items are the rows of the active cart, one item per row
AllItemsLoaded ==
  LET rows == ItemsOfCart(LatestActiveCart(hookUser))
  IN  /\ Len(loadedItems) = Len(rows)
      /\ \A i \in 1..Len(rows) :
           /\ loadedItems[i].id = rows[i].id
           /\ loadedItems[i].quantity = rows[i].quantity

HasCachedCopy(productId) == \E p \in productCache : p.id = productId

\* a cart load whose items query succeeded while the join found no product
\* for some item
LoadsWithGap == \E gap \in SUBSET CartProductIds : gap # {} /\ loadJoinedCart(TRUE, gap)

\* C21: a cart item whose product join returns no product does not fail
\* the cart load: the load returns every item of the cart, that item with
\* a null product; fixMissingProducts then gives it the product fetched by
\* id or else the cached copy, and leaves it null only when there is neither
C21_NullProductKeepsCart ==
  /\ [][LoadsWithGap =>
          /\ loadState' = "loaded"
          /\ AllItemsLoaded'
          /\ \E i \in 1..Len(loadedItems') : loadedItems'[i].product = NullProduct]_vars
  /\ [][fixMissingProducts =>
          /\ AllItemsLoaded'
          /\ \A i \in 1..Len(loadedItems) :
               /\ loadedItems[i].product # NullProduct => loadedItems'[i] = loadedItems[i]
               /\ HasCachedCopy(loadedItems[i].product_id) => loadedItems'[i].product # NullProduct
               /\ loadedItems'[i].product # NullProduct => loadedItems'[i].product.id = loadedItems[i].product_id]_vars

\* after a load with a gap and the attempt to repair it, one item has a
\* product again, which the cache holds, another one is still without one
C21_Witness ==
  /\ loadState = "fixed"
  /\ AllItemsLoaded
  /\ \E i \in 1..Len(loadedItems) : loadedItems[i].product = NullProduct
  /\ \E i \in 1..Len(loadedItems) :
       /\ loadedItems[i].product # NullProduct
       /\ HasCachedCopy(loadedItems[i].product_id)
       /\ getProductById(loadedItems[i].product_id, TRUE) # NullProduct

====
